---- MODULE Spec2Model ----
(***************************************************************************)
(* Verification model of the MathTools arithmetic practice application:    *)
(* the seeded random number generator (Mulberry32), the operand rules      *)
(* engine and the problem factory.                                         *)
(*                                                                         *)
(* 32-bit machine words are kept as pairs <<hi, lo>> of 16-bit limbs, the  *)
(* word's value being hi * 65536 + lo, so that every intermediate value of *)
(* the bit arithmetic keeps its width.                                     *)
(***************************************************************************)
EXTENDS Integers, Sequences, FiniteSets, TLC

(***************************************************************************)
(* 32-bit word arithmetic (the JavaScript operators the generator uses).   *)
(***************************************************************************)

\* Width of one limb: 2^16.
LimbBase == 65536

\* Bitwise exclusive or and bitwise or of two 4-bit digits.
XorDigit ==
  [a \in 0..15 |-> [b \in 0..15 |->
     (((a % 2) + (b % 2)) % 2)
     + 2 * ((((a \div 2) % 2) + ((b \div 2) % 2)) % 2)
     + 4 * ((((a \div 4) % 2) + ((b \div 4) % 2)) % 2)
     + 8 * (((a \div 8) + (b \div 8)) % 2)]]
OrDigit == [a \in 0..15 |-> [b \in 0..15 |-> a + b - (a + b - XorDigit[a][b]) \div 2]]

\* Bitwise exclusive or of two naturals, four bits at a time.
RECURSIVE BitXor(_, _)
BitXor(a, b) ==
  IF a = 0 THEN b
  ELSE IF b = 0 THEN a
  ELSE XorDigit[a % 16][b % 16] + 16 * BitXor(a \div 16, b \div 16)

\* Bitwise or of two naturals, four bits at a time.
RECURSIVE BitOr(_, _)
BitOr(a, b) ==
  IF a = 0 THEN b
  ELSE IF b = 0 THEN a
  ELSE OrDigit[a % 16][b % 16] + 16 * BitOr(a \div 16, b \div 16)

\* JavaScript ^ on one 16-bit limb.
Xor16(a, b) == BitXor(a, b)

\* x ^ y on 32-bit words.
Xor32(x, y) == <<Xor16(x[1], y[1]), Xor16(x[2], y[2])>>

\* x | y on 32-bit words.
Or32(x, y) == <<BitOr(x[1], y[1]), BitOr(x[2], y[2])>>

\* x >>> k for 0 < k < 16 (zero-fill right shift).
Shr32(x, k) ==
  LET p == 2 ^ k
      q == 2 ^ (16 - k)
  IN  <<x[1] \div p, (x[2] \div p) + (x[1] % p) * q>>

\* (x + y) | 0 : addition modulo 2^32.
Add32(x, y) ==
  LET lo == x[2] + y[2]
      hi == x[1] + y[1] + (lo \div LimbBase)
  IN  <<hi % LimbBase, lo % LimbBase>>

\* The 32-bit product of two 16-bit limbs, as a word <<hi, lo>>.
Mul16(a, b) ==
  LET p1 == (a \div 256) * b
      p0 == (a % 256) * b
      lo == p0 + (p1 % 256) * 256
  IN  <<(p1 \div 256) + (lo \div LimbBase), lo % LimbBase>>

\* Math.imul(x, y): the low 32 bits of the product of two words.
Imul(x, y) ==
  LET ll == Mul16(x[2], y[2])
      hl == Mul16(x[1], y[2])
      lh == Mul16(x[2], y[1])
  IN  <<(ll[1] + hl[2] + lh[2]) % LimbBase, ll[2]>>

\* The word holding a non-negative integer below 2^31 (n | 0).
Word(n) == <<n \div LimbBase, n % LimbBase>>

(***************************************************************************)
(* SeededRng: Mulberry32.  The generator's state is one 32-bit word.       *)
(***************************************************************************)

\* 0x6d2b79f5, the Mulberry32 increment.
Increment == <<27947, 31221>>

\* 2654435761 and 2246822519, the multipliers of forProblem.
SeedMultiplier == <<40503, 31153>>
IndexMultiplier == <<34283, 51831>>

\* next() without its final ">>> 0": the output is read as a signed 32-bit
\* integer, the high limb carrying the sign.
ToUint32Signed(x) == <<IF x[1] >= 32768 THEN x[1] - LimbBase ELSE x[1], x[2]>>

\* The value of a word read as an unsigned 32-bit integer (x >>> 0),
\* kept as <<hi, lo>> with value hi * 65536 + lo.
ToUint32(x) == x

\* new SeededRng(seed): state = seed | 0.
SeededRng(seed) == seed

\* The three mixing steps of next(), from the advanced state to the output:
\*   t = Math.imul(state ^ (state >>> 15), 1 | state)
\*   t = (t + Math.imul(t ^ (t >>> 7), 61 | t)) ^ t
\*   t ^ (t >>> 14)
Mix1(s) == Imul(Xor32(s, Shr32(s, 15)), Or32(<<0, 1>>, s))
Mix2(t) == Xor32(Add32(t, Imul(Xor32(t, Shr32(t, 7)), Or32(<<0, 61>>, t))), t)
Mix3(t) == Xor32(t, Shr32(t, 14))
Mulberry(s) == Mix3(Mix2(Mix1(s)))

\* The return of next() once the state is advanced to s: the new state and
\* the float value / 2^32, given by its numerator.
RngOutput(s) == [state |-> s, value |-> ToUint32(Mulberry(s))]

\* next(): this.state = (this.state + 0x6d2b79f5) | 0, then the mixing.
RngNext(state) == RngOutput(Add32(state, Increment))

\* Math.floor(u / 2^32 * n) for a numerator u = <<hi, lo>> and 0 <= n < 2^20.
\* The double product is exact (below 2^52), so this is floor(u * n / 2^32).
FloorScale(u, n) ==
  LET n1 == n \div 1024
      n0 == n % 1024
      c  == (u[2] * n1 + ((u[2] * n0) \div 1024)) \div 64
  IN  (u[1] * n1 + ((u[1] * n0 + c) \div 1024)) \div 64

\* min + Math.floor(r * (max - min + 1)) for the return r of next().
ScaleToRange(r, min, max) ==
  [state |-> r.state, value |-> min + FloorScale(r.value, max - min + 1)]

\* nextInt(min, max) = min + Math.floor(this.next() * (max - min + 1)).
nextInt(state, min, max) == ScaleToRange(RngNext(state), min, max)

\* The value JavaScript gives for an index outside an array.
Undefined == "undefined"

\* arr[i] for the return r of nextInt; arrays are 0-based.  No statement of
\* pick throws: threw is FALSE on every path.
ElementAt(r, arr) ==
  [state |-> r.state,
   value |-> IF r.value + 1 \in DOMAIN arr THEN arr[r.value + 1] ELSE Undefined,
   threw |-> FALSE]

\* pick(arr) = arr[this.nextInt(0, arr.length - 1)].
pick(state, arr) == ElementAt(nextInt(state, 0, Len(arr) - 1), arr)

\* SeededRng.forProblem(seed, index): the child seed
\* seed * 2654435761 + index * 2246822519, truncated to 32 bits by the
\* constructor.  For the seeds and indices of the model the double sum is
\* exact (below 2^53), so its low 32 bits are those of the integer sum.
forProblem(seed, index) ==
  SeededRng(Add32(Imul(Word(seed), SeedMultiplier), Imul(Word(index), IndexMultiplier)))

(***************************************************************************)
(* problemTypes: digit and operator utilities.                             *)
(***************************************************************************)

\* Math.pow(10, k) for k >= 0.
RECURSIVE Pow10(_)
Pow10(k) == IF k = 0 THEN 1 ELSE 10 * Pow10(k - 1)

\* digitRange(digits): the range of the numbers with that many digits.
digitRange(digits) ==
  IF digits = 1 THEN [min |-> 1, max |-> 9]
  ELSE [min |-> Pow10(digits - 1), max |-> Pow10(digits) - 1]

\* countDigits(n) = Math.floor(Math.log10(Math.abs(n))) + 1, and 1 for 0:
\* the number of decimal digits of n.
RECURSIVE countDigits(_)
countDigits(n) ==
  IF n < 0 THEN countDigits(0 - n)
  ELSE IF n < 10 THEN 1
  ELSE 1 + countDigits(n \div 10)

\* a * b for operands below 10^6, kept as <<hi, lo>> with value
\* hi * 10^6 + lo (the product has up to 12 digits).
Product(a, b) ==
  LET ah  == a \div 1000
      al  == a % 1000
      bh  == b \div 1000
      bl  == b % 1000
      mid == ah * bl + al * bh
      low == (mid % 1000) * 1000 + al * bl
  IN  <<ah * bh + (mid \div 1000) + (low \div 1000000), low % 1000000>>

\* countDigits of a product held as <<hi, lo>>.
countDigitsWide(p) ==
  IF p[1] = 0 THEN countDigits(p[2]) ELSE 6 + countDigits(p[1])

\* computeAnswer(a, b, op); a product is returned as an integer only where
\* it is below 2^31.
computeAnswer(a, b, op) ==
  CASE op = "addition" -> a + b
    [] op = "subtraction" -> a - b
    [] op = "multiplication" -> a * b

\* getEnabledOperations ignoring the flags: every operation is returned.
getEnabledOperationsAll(operations) == <<"addition", "subtraction", "multiplication">>

\* getEnabledOperations(operations): the enabled operations in the fixed
\* order addition, subtraction, multiplication; addition when none is.
getEnabledOperations(operations) ==
  LET enabled == (IF operations.addition THEN <<"addition">> ELSE <<>>)
                 \o (IF operations.subtraction THEN <<"subtraction">> ELSE <<>>)
                 \o (IF operations.multiplication THEN <<"multiplication">> ELSE <<>>)
  IN  IF Len(enabled) = 0 THEN <<"addition">> ELSE enabled

\* getMultiplicationBDigitsCap without the difficulty cases: always maxDigits.
getMultiplicationBDigitsCapUncapped(difficulty, maxDigits) == maxDigits

\* getMultiplicationBDigitsCap(difficulty, maxDigits).
getMultiplicationBDigitsCap(difficulty, maxDigits) ==
  CASE difficulty = "Easy" -> 1
    [] difficulty = "Medium" -> IF 2 < maxDigits THEN 2 ELSE maxDigits
    [] difficulty = "Hard" -> maxDigits

\* The loop of hasCarry.  The function returns at the first digit sum of 10
\* or more, so the assignment that follows always stores carry = 0.
RECURSIVE hasCarryLoop(_, _, _)
hasCarryLoop(a, b, carry) ==
  IF a > 0 \/ b > 0
  THEN LET digitSum == (a % 10) + (b % 10) + carry
       IN  IF digitSum >= 10 THEN TRUE
           ELSE hasCarryLoop(a \div 10, b \div 10, IF digitSum >= 10 THEN 1 ELSE 0)
  ELSE FALSE

\* hasCarry(a, b).
hasCarry(a, b) == hasCarryLoop(a, b, 0)

\* The loop of hasBorrow, likewise.
RECURSIVE hasBorrowLoop(_, _, _)
hasBorrowLoop(a, b, borrow) ==
  IF a > 0 \/ b > 0
  THEN LET aDigit == (a % 10) - borrow
           bDigit == b % 10
       IN  IF aDigit < bDigit THEN TRUE
           ELSE hasBorrowLoop(a \div 10, b \div 10, IF aDigit < bDigit THEN 1 ELSE 0)
  ELSE FALSE

\* hasBorrow(a, b).
hasBorrow(a, b) == hasBorrowLoop(a, b, 0)

(***************************************************************************)
(* rules: the operand and operation rules engine.                          *)
(***************************************************************************)

\* The default of generateOperands' maxAttempts parameter.
DefaultMaxAttempts == 20

\* The digit counts once aDigits is drawn (ra): bDigits is drawn from 1..bMax.
CountsOf(ra, rb) == [rng |-> rb.state, aDigits |-> ra.value, bDigits |-> rb.value]
DrawBDigits(ra, bMax) == CountsOf(ra, nextInt(ra.state, 1, bMax))

\* The digit counts of Easy addition and subtraction: one draw for both.
SameDigits(r) == [rng |-> r.state, aDigits |-> r.value, bDigits |-> r.value]

\* chooseDigitCounts drawing from 1 .. maxDigits + 1: an off-by-one in the
\* upper end of the digit range.
chooseDigitCountsOffByOne(rng, op, config) ==
  IF op = "multiplication"
  THEN DrawBDigits(nextInt(rng, 1, config.maxDigits + 1),
                   getMultiplicationBDigitsCap(config.difficulty, config.maxDigits))
  ELSE IF config.difficulty = "Easy"
  THEN SameDigits(nextInt(rng, 1, config.maxDigits + 1))
  ELSE DrawBDigits(nextInt(rng, 1, config.maxDigits + 1), config.maxDigits + 1)

\* chooseDigitCounts(rng, op, config); rng is the generator's state, and the
\* state after the draws is returned with the counts.
chooseDigitCounts(rng, op, config) ==
  IF op = "multiplication"
  THEN DrawBDigits(nextInt(rng, 1, config.maxDigits),
                   getMultiplicationBDigitsCap(config.difficulty, config.maxDigits))
  ELSE IF config.difficulty = "Easy"
  THEN SameDigits(nextInt(rng, 1, config.maxDigits))
  ELSE DrawBDigits(nextInt(rng, 1, config.maxDigits), config.maxDigits)

\* One draw of a pair: a = rng.nextInt(aRange.min, aRange.max), then
\* b = rng.nextInt(bRange.min, bRange.max).
PairOf(ra, rb) == [rng |-> rb.state, a |-> ra.value, b |-> rb.value]
DrawB(ra, bRange) == PairOf(ra, nextInt(ra.state, bRange.min, bRange.max))
drawPair(rng, aRange, bRange) == DrawB(nextInt(rng, aRange.min, aRange.max), bRange)

\* What a retry loop yields: the accepted pair, or none after maxAttempts.
Accepted(d, a, b, attempt) ==
  [found |-> TRUE, rng |-> d.rng, a |-> a, b |-> b,
   draws |-> attempt + 1, drawnA |-> d.a, drawnB |-> d.b]
Exhausted(rng, attempt) ==
  [found |-> FALSE, rng |-> rng, a |-> 0, b |-> 0,
   draws |-> attempt, drawnA |-> 0, drawnB |-> 0]

\* The retry loop of the multiplication path: the first pair, among
\* maxAttempts draws, whose product has at most 7 digits.
RECURSIVE multiplicationLoop(_, _, _, _, _)
RECURSIVE multiplicationAttempt(_, _, _, _, _)
multiplicationAttempt(d, attempt, aRange, bRange, maxAttempts) ==
  IF countDigitsWide(Product(d.a, d.b)) <= 7
  THEN Accepted(d, d.a, d.b, attempt)
  ELSE multiplicationLoop(d.rng, attempt + 1, aRange, bRange, maxAttempts)

multiplicationLoop(rng, attempt, aRange, bRange, maxAttempts) ==
  IF attempt < maxAttempts
  THEN multiplicationAttempt(drawPair(rng, aRange, bRange), attempt,
                             aRange, bRange, maxAttempts)
  ELSE Exhausted(rng, attempt)

\* The fallback with "if" for "while": b is halved once at most.
reduceBOnce(a, b) ==
  IF countDigitsWide(Product(a, b)) > 7 /\ b > 1 THEN b \div 2 ELSE b

\* The fallback of the multiplication path: b is halved while the product
\* has more than 7 digits and b > 1.
RECURSIVE reduceB(_, _)
reduceB(a, b) ==
  IF countDigitsWide(Product(a, b)) > 7 /\ b > 1 THEN reduceB(a, b \div 2) ELSE b

\* The pair returned as drawn: the swap of a subtraction pair left out.
orderOperandsUnswapped(op, a, b) == <<a, b>>

\* The swap of a subtraction pair, [a, b] = [b, a] when b > a, as <<a, b>>.
orderOperands(op, a, b) ==
  IF op = "subtraction" /\ b > a THEN <<b, a>> ELSE <<a, b>>

\* The Easy test left out: every pair is accepted.
easyAttemptUntested(d, ab, attempt, op, aRange, bRange, maxAttempts) ==
  Accepted(d, ab[1], ab[2], attempt)

\* The retry loop of the Easy addition/subtraction path: the first pair,
\* among maxAttempts draws, without carry (addition) or borrow (subtraction);
\* a subtraction pair is swapped to a >= b before the test.
RECURSIVE easyLoop(_, _, _, _, _, _)
RECURSIVE easyAttempt(_, _, _, _, _, _, _)
easyAttempt(d, ab, attempt, op, aRange, bRange, maxAttempts) ==
  IF (op = "addition" /\ ~hasCarry(ab[1], ab[2]))
     \/ (op = "subtraction" /\ ~hasBorrow(ab[1], ab[2]))
  THEN Accepted(d, ab[1], ab[2], attempt)
  ELSE easyLoop(d.rng, attempt + 1, op, aRange, bRange, maxAttempts)

RECURSIVE easyDraw(_, _, _, _, _, _)
easyDraw(d, attempt, op, aRange, bRange, maxAttempts) ==
  easyAttempt(d, orderOperands(op, d.a, d.b), attempt, op, aRange, bRange, maxAttempts)

easyLoop(rng, attempt, op, aRange, bRange, maxAttempts) ==
  IF attempt < maxAttempts
  THEN easyDraw(drawPair(rng, aRange, bRange), attempt, op, aRange, bRange, maxAttempts)
  ELSE Exhausted(rng, attempt)

\* One run of generateOperands is recorded with the five fields of
\* GeneratedOperands and, with them, the number of pairs drawn (draws), the
\* return statement taken (path: "retry" inside a loop, "fallback" after the
\* multiplication loop, "exhausted" after the Easy loop, "default" without a
\* loop) and the returned pair as it was drawn, before any swap or halving
\* (drawnA, drawnB).
Run(op, counts, a, b, draws, path, drawnA, drawnB) ==
  [op |-> op, a |-> a, b |-> b, aDigits |-> counts.aDigits, bDigits |-> counts.bDigits,
   draws |-> draws, path |-> path, drawnA |-> drawnA, drawnB |-> drawnB]

\* The return inside a retry loop.
ReturnAccepted(op, counts, e) ==
  Run(op, counts, e.a, e.b, e.draws, "retry", e.drawnA, e.drawnB)

\* The multiplication fallback: one more pair d, b halved until it fits.
ReturnReduced(op, counts, m, d) ==
  Run(op, counts, d.a, reduceB(d.a, d.b), m.draws + 1, "fallback", d.a, d.b)

\* The default generation: one pair d, swapped for subtraction if needed.
ReturnOrdered(op, counts, e, d, ab, path) ==
  Run(op, counts, ab[1], ab[2], e.draws + 1, path, d.a, d.b)
ReturnDefault(op, counts, e, d, path) ==
  ReturnOrdered(op, counts, e, d, orderOperands(op, d.a, d.b), path)

\* After the multiplication loop m.
AfterMultiplicationLoop(op, counts, aRange, bRange, m) ==
  IF m.found
  THEN ReturnAccepted(op, counts, m)
  ELSE ReturnReduced(op, counts, m, drawPair(m.rng, aRange, bRange))

\* After the Easy loop e (or no loop at all: e is then Exhausted at 0 draws).
AfterEasyLoop(op, counts, aRange, bRange, e, path) ==
  IF e.found
  THEN ReturnAccepted(op, counts, e)
  ELSE ReturnDefault(op, counts, e, drawPair(e.rng, aRange, bRange), path)

\* generateOperands once the digit counts and their ranges are chosen.
OperandsIn(op, config, maxAttempts, counts, aRange, bRange) ==
  IF op = "multiplication"
  THEN AfterMultiplicationLoop(op, counts, aRange, bRange,
         multiplicationLoop(counts.rng, 0, aRange, bRange, maxAttempts))
  ELSE IF config.difficulty = "Easy" /\ (op = "addition" \/ op = "subtraction")
  THEN AfterEasyLoop(op, counts, aRange, bRange,
         easyLoop(counts.rng, 0, op, aRange, bRange, maxAttempts), "exhausted")
  ELSE AfterEasyLoop(op, counts, aRange, bRange, Exhausted(counts.rng, 0), "default")

OperandsFor(op, config, maxAttempts, counts) ==
  OperandsIn(op, config, maxAttempts, counts,
             digitRange(counts.aDigits), digitRange(counts.bDigits))

\* The run of generateOperands(rng, op, config, maxAttempts).
operandsRun(rng, op, config, maxAttempts) ==
  OperandsFor(op, config, maxAttempts, chooseDigitCounts(rng, op, config))

\* The GeneratedOperands of a run.
OperandsOf(run) ==
  [op |-> run.op, a |-> run.a, b |-> run.b,
   aDigits |-> run.aDigits, bDigits |-> run.bDigits]

\* generateOperands(rng, op, config, maxAttempts).
generateOperands(rng, op, config, maxAttempts) ==
  OperandsOf(operandsRun(rng, op, config, maxAttempts))

\* selectOperation(rng, config): the picked operation and the state after.
selectOperation(rng, config) == pick(rng, getEnabledOperations(config.operations))

(***************************************************************************)
(* problemGenerator: the problem factory.                                  *)
(***************************************************************************)

\* The decimal digits of a non-negative integer, as template literals
\* format it.
RECURSIVE DecimalString(_)
DecimalString(n) == IF n < 10 THEN <<n>> ELSE DecimalString(n \div 10) \o <<n % 10>>

\* The id `p-${seed}-${index}`.
ProblemId(seed, index) ==
  <<"p", "-">> \o DecimalString(seed) \o <<"-">> \o DecimalString(index)

\* The Problem record returned; now is the value of Date.now().
ProblemOf(seed, index, now, operands) ==
  [id |-> ProblemId(seed, index), seed |-> seed, index |-> index,
   op |-> operands.op, a |-> operands.a, b |-> operands.b,
   aDigits |-> operands.aDigits, bDigits |-> operands.bDigits,
   createdAt |-> now]

\* generateProblem once the operation is selected (sel).
ProblemFor(seed, index, config, now, sel) ==
  ProblemOf(seed, index, now,
            generateOperands(sel.state, sel.value, config, DefaultMaxAttempts))

\* generateProblem seeding its generator from the clock as well as the seed.
generateProblemClockSeeded(seed, index, config, now) ==
  ProblemFor(seed, index, config, now,
             selectOperation(forProblem(seed + now, index), config))

\* generateProblem(seed, index, config).
generateProblem(seed, index, config, now) ==
  ProblemFor(seed, index, config, now, selectOperation(forProblem(seed, index), config))

\* generateProblems(seed, startIndex, count, config): the loop pushes
\* generateProblem(seed, startIndex + i, config) for i = 0 .. count - 1.
RECURSIVE generateProblemsLoop(_, _, _, _, _, _, _)
generateProblemsLoop(problems, i, seed, startIndex, count, config, now) ==
  IF i < count
  THEN generateProblemsLoop(Append(problems, generateProblem(seed, startIndex + i, config, now)),
                            i + 1, seed, startIndex, count, config, now)
  ELSE problems

\* generateProblems looping with i <= count: one problem too many.
generateProblemsInclusive(seed, startIndex, count, config, now) ==
  generateProblemsLoop(<<>>, 0, seed, startIndex, count + 1, config, now)

\* generateProblems(seed, startIndex, count, config).
generateProblems(seed, startIndex, count, config, now) ==
  generateProblemsLoop(<<>>, 0, seed, startIndex, count, config, now)

(***************************************************************************)
(* The state: a caller of the generation API and of the generator.         *)
(***************************************************************************)

VARIABLES
  config,    \* the PracticeConfig handed to the generation API
  now,       \* the value of Date.now()
  pc,        \* the caller's position: "idle", "called", "recalled"
  call,      \* the generation call the caller made, with its arguments
  result,    \* the value that call returned, while the caller holds it
  again,     \* the value the same call returned when it was repeated
  rngState,  \* SeededRng.state of the generator under test
  draws,     \* the number of values drawn from that generator
  ret,       \* the generator method called last, its arguments and return
  app,              \* the AppState held by useReducer(appReducer, ...)
  listeners,        \* the <<event type, handler>> pairs registered on the ink canvas
  activeStroke,     \* PointerController.activeStroke
  lastPointIndex,   \* PointerController.lastPointIndex
  isPenActive,      \* PointerController.isPenActive
  activePointerId,  \* PointerController.activePointerId
  pointerCapture,   \* the pointer id the canvas has captured (setPointerCapture)
  strokeCounter,    \* strokeModel's module-level strokeCounter
  strokes,          \* ProblemCanvas' strokesRef.current
  canvasOps,        \* what has been drawn on the ink canvas since it was last cleared, in order
  event,            \* the pointer event, controller call or user action that happened last
  progression,      \* the last call of computeProgression and its return
  storedSessions,   \* localStorage's item 'mathCanvas.sessions', parsed
  appendsInFlight,  \* the appendSession calls suspended at their await, oldest first
  appendCalls       \* the number of appendSession calls made

genVars == <<config, now, pc, call, result, again>>
rngVars == <<rngState, draws, ret>>
controllerVars == <<activeStroke, lastPointIndex, isPenActive, activePointerId>>
canvasVars == <<listeners, pointerCapture, strokeCounter, strokes, canvasOps>>
pointerVars == <<controllerVars, canvasVars, event>>
storageVars == <<storedSessions, appendsInFlight, appendCalls>>
uiVars == <<app, pointerVars, progression, storageVars>>

vars == <<genVars, rngVars, uiVars>>

\* Bounds of the model.
MaxSeed == 3
MaxIndex == 1
MaxCount == 2
MaxNow == 1
MaxDraws == 3
MaxMin == 2
MaxWidth == 3

Seeds == 1..MaxSeed
Indices == 0..MaxIndex
Counts == 0..MaxCount

\* The operations, difficulties and digit limits of the store's types.
Operations == {"addition", "subtraction", "multiplication"}
Difficulties == {"Easy", "Medium", "Hard"}
MaxDigitsValues == 1..6

\* The generation-relevant fields of every PracticeConfig.
Configs ==
  [operations : [addition : BOOLEAN, subtraction : BOOLEAN, multiplication : BOOLEAN],
   maxDigits : MaxDigitsValues,
   difficulty : Difficulties]

\* The generation-relevant fields of DEFAULT_CONFIG.
DefaultConfig ==
  [operations |-> [addition |-> TRUE, subtraction |-> FALSE, multiplication |-> FALSE],
   maxDigits |-> 1, difficulty |-> "Easy"]

NoCall == [fn |-> "none"]
NoValue == [kind |-> "none"]
NoReturn == [fn |-> "none"]

\* A field that may be null (or undefined) holds Null or Some(v), and
\* ValueOf gives the v back.
Null == <<>>
Some(v) == <<v>>
ValueOf(o) == o[1]

\* The fields of DEFAULT_CONFIG the reducer's guards and the generation read
\* (guidedMode, checkMode and themeId are set by actions of their own and
\* read by no other).
DefaultPracticeConfig ==
  [operations |-> [addition |-> TRUE, subtraction |-> FALSE, multiplication |-> FALSE],
   maxDigits |-> 1, difficulty |-> "Easy", mode |-> "FreePractice", sessionSize |-> 10]

\* DEFAULT_APP_STATE.toolSettings.
DefaultToolSettings == [color |-> "#000000", size |-> 3, mode |-> "pen"]

\* DEFAULT_APP_STATE (without wordProblemSession and progress, which no
\* action on the configuration, the session or the tools reads or writes).
DefaultAppState ==
  [mode |-> "canvas", config |-> DefaultPracticeConfig, session |-> Null,
   toolSettings |-> DefaultToolSettings]

\* The listeners bindEvents registers on the canvas.
BoundListeners ==
  {<<"pointerdown", "onPointerDown">>, <<"pointermove", "onPointerMove">>,
   <<"pointerup", "onPointerUp">>, <<"pointercancel", "onPointerUp">>,
   <<"pointerleave", "onPointerUp">>}

NoEvent == [type |-> "none"]
NoProgression == [called |-> FALSE]

\* The application as useReducer(appReducer, DEFAULT_APP_STATE) creates it.
AppCreated == app = DefaultAppState

\* A PointerController right after its constructor, on a fresh ink canvas
\* of a ProblemCanvas that holds no stroke.
ControllerConstructed ==
  /\ listeners = BoundListeners
  /\ activeStroke = Null
  /\ lastPointIndex = 0
  /\ isPenActive = FALSE
  /\ activePointerId = Null
  /\ pointerCapture = Null
  /\ strokeCounter = 0
  /\ strokes = <<>>
  /\ canvasOps = <<>>

\* localStorage of a browser that never ran the application, and no call
\* of the adapter made.
StorageCreated ==
  /\ storedSessions = Null
  /\ appendsInFlight = <<>>
  /\ appendCalls = 0

\* The user interface before anything happened.
UiCreated ==
  /\ AppCreated
  /\ ControllerConstructed
  /\ event = NoEvent
  /\ progression = NoProgression
  /\ StorageCreated

\* The value a generation call returns at time t.
Invoke(c, cfg, t) ==
  IF c.fn = "generateProblem"
  THEN [kind |-> "problem", value |-> generateProblem(c.seed, c.index, cfg, t)]
  ELSE [kind |-> "batch",
        value |-> generateProblems(c.seed, c.startIndex, c.count, cfg, t)]

\* A caller holding no value invokes generateProblem(seed, index, config).
CallGenerateProblem(seed, index) ==
  /\ pc = "idle"
  /\ call = NoCall
  /\ pc' = "called"
  /\ call' = [fn |-> "generateProblem", seed |-> seed, index |-> index]
  /\ result' = NoValue
  /\ again' = NoValue
  /\ UNCHANGED <<config, now, rngVars, uiVars>>

\* A caller holding no value invokes
\* generateProblems(seed, startIndex, count, config).
CallGenerateProblems(seed, startIndex, count) ==
  /\ pc = "idle"
  /\ call = NoCall
  /\ pc' = "called"
  /\ call' = [fn |-> "generateProblems", seed |-> seed,
              startIndex |-> startIndex, count |-> count]
  /\ result' = NoValue
  /\ again' = NoValue
  /\ UNCHANGED <<config, now, rngVars, uiVars>>

\* The call returns.
Return ==
  /\ pc = "called"
  /\ result' = Invoke(call, config, now)
  /\ pc' = "idle"
  /\ UNCHANGED <<config, now, call, again, rngVars, uiVars>>

\* The caller repeats generateProblem with the arguments of its call.
RepeatGenerateProblem ==
  /\ pc = "idle"
  /\ call.fn = "generateProblem"
  /\ again = NoValue
  /\ pc' = "recalled"
  /\ again' = NoValue
  /\ UNCHANGED <<config, now, call, result, rngVars, uiVars>>

\* The repeated call returns.
ReturnAgain ==
  /\ pc = "recalled"
  /\ again' = Invoke(call, config, now)
  /\ pc' = "idle"
  /\ UNCHANGED <<config, now, call, result, rngVars, uiVars>>

\* The caller drops the values it holds.
Forget ==
  /\ pc = "idle"
  /\ call # NoCall
  /\ call' = NoCall
  /\ result' = NoValue
  /\ again' = NoValue
  /\ UNCHANGED <<config, now, pc, rngVars, uiVars>>

\* Time passes.
Tick ==
  /\ now < MaxNow
  /\ now' = now + 1
  /\ UNCHANGED <<config, pc, call, result, again, rngVars, uiVars>>

InitGen ==
  /\ config \in Configs
  /\ now = 0
  /\ pc = "idle"
  /\ call = NoCall
  /\ result = NoValue
  /\ again = NoValue
  /\ rngState = SeededRng(Word(0))
  /\ draws = 0
  /\ ret = NoReturn
  /\ UiCreated

NextGen ==
  \/ \E seed \in Seeds, index \in Indices : CallGenerateProblem(seed, index)
  \/ \E seed \in Seeds, startIndex \in Indices, count \in Counts :
       CallGenerateProblems(seed, startIndex, count)
  \/ Return
  \/ RepeatGenerateProblem
  \/ ReturnAgain
  \/ Forget
  \/ Tick

SpecGen == InitGen /\ [][NextGen]_vars


(***************************************************************************)
(* The problem factory handed a configuration outside the MaxDigits type.  *)
(***************************************************************************)

\* Values of maxDigits outside 1..6 that a caller can pass at run time (the
\* MaxDigits type is erased): one below the range and one above it.
InvalidMaxDigitsValues == {0, 7}

InvalidConfigs ==
  [operations : [addition : BOOLEAN, subtraction : BOOLEAN, multiplication : BOOLEAN],
   maxDigits : InvalidMaxDigitsValues,
   difficulty : Difficulties]

InitInvalid ==
  /\ config \in InvalidConfigs
  /\ now = 0
  /\ pc = "idle"
  /\ call = NoCall
  /\ result = NoValue
  /\ again = NoValue
  /\ rngState = SeededRng(Word(0))
  /\ draws = 0
  /\ ret = NoReturn
  /\ UiCreated

SpecInvalid == InitInvalid /\ [][NextGen]_vars


(***************************************************************************)
(* The generator under test: a caller of next, nextInt and pick.           *)
(***************************************************************************)

\* The (min, max) pairs handed to nextInt: small ranges around zero and the
\* digit ranges the rules engine draws operands from.
IntRanges ==
  {<<min, min + w>> : min \in (0 - MaxMin)..MaxMin, w \in 0..MaxWidth}
  \cup {<<digitRange(d).min, digitRange(d).max>> : d \in MaxDigitsValues}

\* The arrays handed to pick: the empty array and every array
\* getEnabledOperations returns.
PickArrays ==
  {<<>>} \cup {getEnabledOperations(o) :
                 o \in [addition : BOOLEAN, subtraction : BOOLEAN, multiplication : BOOLEAN]}

\* The state and the record of a call that returned r.
Returned(r, record) ==
  /\ rngState' = r.state
  /\ ret' = record
  /\ draws' = draws + 1
  /\ UNCHANGED <<genVars, uiVars>>

NextRecord(r) == [fn |-> "next", value |-> r.value]
CallNext ==
  /\ draws < MaxDraws
  /\ Returned(RngNext(rngState), NextRecord(RngNext(rngState)))

\* raw is the value of next() the call consumed.
NextIntRecord(r, min, max, raw) ==
  [fn |-> "nextInt", min |-> min, max |-> max, value |-> r.value, raw |-> raw]
CallNextInt(min, max) ==
  /\ draws < MaxDraws
  /\ Returned(nextInt(rngState, min, max),
              NextIntRecord(nextInt(rngState, min, max), min, max, RngNext(rngState).value))

PickRecord(r, arr) == [fn |-> "pick", arr |-> arr, value |-> r.value, threw |-> r.threw]
CallPick(arr) ==
  /\ draws < MaxDraws
  /\ Returned(pick(rngState, arr), PickRecord(pick(rngState, arr), arr))

InitRng ==
  /\ rngState \in {forProblem(seed, index) : seed \in Seeds, index \in Indices}
  /\ draws = 0
  /\ ret = NoReturn
  /\ UiCreated
  /\ config = DefaultConfig
  /\ now = 0
  /\ pc = "idle"
  /\ call = NoCall
  /\ result = NoValue
  /\ again = NoValue

NextRng ==
  \/ CallNext
  \/ \E range \in IntRanges : CallNextInt(range[1], range[2])
  \/ \E arr \in PickArrays : CallPick(arr)

SpecRng == InitRng /\ [][NextRng]_vars


(***************************************************************************)
(* appReducer: the store of the application.                               *)
(***************************************************************************)

\* { ...base, ...partial }: the fields of partial replace those of base.
Spread(base, partial) ==
  [f \in DOMAIN base \cup DOMAIN partial |->
     IF f \in DOMAIN partial THEN partial[f] ELSE base[f]]

\* state.config with the given fields replaced.
WithConfig(state, partial) == [state EXCEPT !.config = Spread(@, partial)]

\* COMPLETE_SESSION, Date.now() returning t.
CompleteSession(state, t) ==
  IF state.session = Null THEN state
  ELSE [state EXCEPT !.session =
          Some(Spread(ValueOf(@), [status |-> "completed", completedAt |-> Some(t)]))]

\* CHECK_PROBLEM that also sets the session's status back to active.
CheckProblemReopening(state, payload) ==
  IF state.session = Null THEN state
  ELSE [state EXCEPT !.session =
          Some([ValueOf(@) EXCEPT !.status = "active",
                                  !.checkResults = [id \in {payload.problemId} |-> payload.result]])]

\* CHECK_PROBLEM: checkResults[problemId] = result.
CheckProblem(state, payload) ==
  IF state.session = Null THEN state
  ELSE [state EXCEPT !.session =
          Some([ValueOf(@) EXCEPT !.checkResults =
                  [id \in DOMAIN @ \cup {payload.problemId} |->
                     IF id = payload.problemId THEN payload.result ELSE @[id]]])]

\* appReducer(state, action), Date.now() returning t.  The cases that set
\* guidedMode, checkMode, themeId, the word-problem session and the progress
\* leave every field of the model as it is, like the default case.
appReducer(state, action, t) ==
  CASE action.type = "SET_APP_MODE" -> [state EXCEPT !.mode = action.payload]
    [] action.type = "SET_CONFIG" -> WithConfig(state, action.payload)
    [] action.type = "SET_OPERATIONS" ->
         WithConfig(state, [operations |-> Spread(state.config.operations, action.payload)])
    [] action.type = "SET_MAX_DIGITS" -> WithConfig(state, [maxDigits |-> action.payload])
    [] action.type = "SET_DIFFICULTY" -> WithConfig(state, [difficulty |-> action.payload])
    [] action.type = "SET_MODE" -> WithConfig(state, [mode |-> action.payload])
    [] action.type = "SET_SESSION_SIZE" -> WithConfig(state, [sessionSize |-> action.payload])
    [] action.type = "START_SESSION" -> [state EXCEPT !.session = Some(action.payload)]
    [] action.type = "COMPLETE_SESSION" -> CompleteSession(state, t)
    [] action.type = "END_SESSION" ->
         [WithConfig(state, [mode |-> "FreePractice"]) EXCEPT !.session = Null]
    [] action.type = "CHECK_PROBLEM" -> CheckProblem(state, action.payload)
    [] action.type = "SET_TOOL_COLOR" ->
         [state EXCEPT !.toolSettings = Spread(@, [color |-> action.payload, mode |-> "pen"])]
    [] action.type = "SET_TOOL_SIZE" ->
         [state EXCEPT !.toolSettings = Spread(@, [size |-> action.payload])]
    [] action.type = "SET_TOOL_MODE" ->
         [state EXCEPT !.toolSettings = Spread(@, [mode |-> action.payload])]
    [] OTHER -> state

\* dispatch(action): the store takes the reducer's result.
Dispatch(action) == app' = appReducer(app, action, now)

\* The values the tool bar of Shell offers: pen and eraser, two of the sizes
\* of the slider, two of the colors of the palette.
ToolModes == {"pen", "eraser"}
ToolSizes == {3, 8}
ToolColors == {"#000000", "#dc2626"}

\* The id `session-${Date.now()}`.
SessionId(t) == <<"s", "e", "s", "s", "i", "o", "n", "-">> \o DecimalString(t)

\* The problems of a session stand for the call that made them,
\* generateProblems(seed, 0, config.sessionSize, config): the list is a
\* function of these arguments.
SessionProblems(seed, cfg) ==
  [seed |-> seed, startIndex |-> 0, count |-> cfg.sessionSize,
   config |-> [operations |-> cfg.operations, maxDigits |-> cfg.maxDigits,
               difficulty |-> cfg.difficulty]]

\* No problem checked yet: checkResults = {}.
NoCheckResults == [id \in {} |-> "Skipped"]

\* The ActiveSession handleStartSession builds at time t.
NewSession(seed, cfg, t) ==
  [id |-> SessionId(t), seed |-> seed, startedAt |-> t, status |-> "active",
   problems |-> SessionProblems(seed, cfg), checkResults |-> NoCheckResults]

\* The payloads of the reducer's actions.
AppModes == {"canvas", "wordproblems"}
PracticeModes == {"FreePractice", "Session"}
CheckResults == {"Correct", "Incorrect", "Skipped"}
OperationSettings == [addition : BOOLEAN, subtraction : BOOLEAN, multiplication : BOOLEAN]
DigitPayloads == {1, 6}
SessionSizes == {10, 15}
SessionSeeds == {1}
ProblemIds == {"p1"}

\* An action goes through the reducer; nothing else of the program runs.
Reduce(action) ==
  /\ Dispatch(action)
  /\ UNCHANGED <<genVars, rngVars, pointerVars, progression, storageVars>>

SetAppMode == \E m \in AppModes : Reduce([type |-> "SET_APP_MODE", payload |-> m])

SetConfig ==
  \/ \E o \in OperationSettings : Reduce([type |-> "SET_CONFIG", payload |-> [operations |-> o]])
  \/ \E d \in DigitPayloads : Reduce([type |-> "SET_CONFIG", payload |-> [maxDigits |-> d]])
  \/ \E d \in Difficulties : Reduce([type |-> "SET_CONFIG", payload |-> [difficulty |-> d]])

SetOperations ==
  \/ \E op \in Operations, b \in BOOLEAN :
       Reduce([type |-> "SET_OPERATIONS", payload |-> [f \in {op} |-> b]])
  \/ \E o \in OperationSettings : Reduce([type |-> "SET_OPERATIONS", payload |-> o])

SetMaxDigits == \E d \in DigitPayloads : Reduce([type |-> "SET_MAX_DIGITS", payload |-> d])
SetDifficulty == \E d \in Difficulties : Reduce([type |-> "SET_DIFFICULTY", payload |-> d])
SetMode == \E m \in PracticeModes : Reduce([type |-> "SET_MODE", payload |-> m])
SetSessionSize == \E n \in SessionSizes : Reduce([type |-> "SET_SESSION_SIZE", payload |-> n])

StartSession ==
  \E seed \in SessionSeeds :
    Reduce([type |-> "START_SESSION", payload |-> NewSession(seed, DefaultPracticeConfig, now)])

CompleteSessionAction == Reduce([type |-> "COMPLETE_SESSION"])
EndSession == Reduce([type |-> "END_SESSION"])

CheckProblemAction ==
  \E id \in ProblemIds, r \in CheckResults :
    Reduce([type |-> "CHECK_PROBLEM", payload |-> [problemId |-> id, result |-> r]])

SetTool ==
  \/ \E m \in ToolModes : Reduce([type |-> "SET_TOOL_MODE", payload |-> m])
  \/ \E n \in ToolSizes : Reduce([type |-> "SET_TOOL_SIZE", payload |-> n])
  \/ \E c \in ToolColors : Reduce([type |-> "SET_TOOL_COLOR", payload |-> c])

\* The actions on fields the model leaves out, and unknown actions.
OtherAction == Reduce([type |-> "SET_THEME", payload |-> "default"])

\* The application as created: DEFAULT_APP_STATE, nothing called yet.
InitReducer ==
  /\ config = DefaultConfig
  /\ now = 0
  /\ pc = "idle"
  /\ call = NoCall
  /\ result = NoValue
  /\ again = NoValue
  /\ rngState = SeededRng(Word(0))
  /\ draws = 0
  /\ ret = NoReturn
  /\ UiCreated

\* Every action the reducer accepts, in any order.
NextReducer ==
  \/ SetAppMode
  \/ SetConfig
  \/ SetOperations
  \/ SetMaxDigits
  \/ SetDifficulty
  \/ SetMode
  \/ SetSessionSize
  \/ StartSession
  \/ CompleteSessionAction
  \/ EndSession
  \/ CheckProblemAction
  \/ SetTool
  \/ OtherAction

SpecReducer == InitReducer /\ [][NextReducer]_vars

(***************************************************************************)
(* TopBar and App: what the user can do to the store.                      *)
(***************************************************************************)

isSessionActiveNever == FALSE

\* TopBar's isSessionActive: a session exists, active or completed.
isSessionActive == app.session # Null

\* Object.values(operations).filter(Boolean).length.
EnabledCount(operations) == Cardinality({op \in Operations : operations[op]})

\* toggleOp(op): the store after a click on an operation's button.
toggleOp(op) ==
  IF isSessionActive THEN app
  ELSE IF app.config.operations[op] /\ EnabledCount(app.config.operations) <= 1 THEN app
  ELSE appReducer(app, [type |-> "SET_OPERATIONS",
                        payload |-> [f \in {op} |-> ~app.config.operations[op]]], now)

\* The digits slider and the difficulty buttons are disabled while
\* isSessionActive: a disabled control delivers no event.
maxDigitsSlider(d) ==
  IF isSessionActive THEN app
  ELSE appReducer(app, [type |-> "SET_MAX_DIGITS", payload |-> d], now)

difficultyButton(d) ==
  IF isSessionActive THEN app
  ELSE appReducer(app, [type |-> "SET_DIFFICULTY", payload |-> d], now)

\* The Test Mode button.
testModeButton ==
  IF app.config.mode # "Session"
  THEN appReducer(app, [type |-> "SET_MODE", payload |-> "Session"], now)
  ELSE IF app.session # Null THEN app
  ELSE appReducer(app, [type |-> "SET_MODE", payload |-> "FreePractice"], now)

\* A click outside the session popover.
outsideClick ==
  IF app.session = Null
  THEN appReducer(app, [type |-> "SET_MODE", payload |-> "FreePractice"], now)
  ELSE app

\* The session popover, with the size slider and the Start button, is
\* rendered in Session mode while there is no session.
SessionPopoverShown == app.config.mode = "Session" /\ app.session = Null

\* handleStartSession with createSeed() returning seed.
handleStartSession(seed) ==
  appReducer(app, [type |-> "START_SESSION", payload |-> NewSession(seed, app.config, now)], now)

\* The number of problems checked Correct or Incorrect.
TotalChecked(session) ==
  Cardinality({id \in DOMAIN session.checkResults :
                 session.checkResults[id] \in {"Correct", "Incorrect"}})

\* handleEndSession: with problems checked the result overlay is shown and
\* the store is left alone.
handleEndSession ==
  IF app.session = Null \/ TotalChecked(ValueOf(app.session)) = 0
  THEN appReducer(app, [type |-> "END_SESSION"], now)
  ELSE app

\* handleCheck(problemId, result).
handleCheck(problemId, r) ==
  IF app.session # Null
  THEN appReducer(app, [type |-> "CHECK_PROBLEM",
                        payload |-> [problemId |-> problemId, result |-> r]], now)
  ELSE app

\* The user acts on a control: the store becomes newApp.
UserAction(name, newApp) ==
  /\ app' = newApp
  /\ event' = [type |-> name]
  /\ UNCHANGED <<genVars, rngVars, controllerVars, canvasVars, progression, storageVars>>

ToggleOp == \E op \in Operations : UserAction("toggleOp", toggleOp(op))
MaxDigitsSlider == \E d \in DigitPayloads : UserAction("maxDigitsSlider", maxDigitsSlider(d))
DifficultyButton == \E d \in Difficulties : UserAction("difficultyButton", difficultyButton(d))
TestModeButton == UserAction("testModeButton", testModeButton)
OutsideClick == UserAction("outsideClick", outsideClick)

SessionSizeSlider ==
  /\ SessionPopoverShown
  /\ \E n \in SessionSizes :
       UserAction("sessionSizeSlider",
                  appReducer(app, [type |-> "SET_SESSION_SIZE", payload |-> n], now))

StartButton ==
  /\ SessionPopoverShown
  /\ \E seed \in SessionSeeds : UserAction("handleStartSession", handleStartSession(seed))

ConfirmFinish ==
  UserAction("handleConfirmFinish", appReducer(app, [type |-> "COMPLETE_SESSION"], now))

EndSessionButton == UserAction("handleEndSession", handleEndSession)

\* handleResultClose: the overlay handleEndSession showed is dismissed.
ResultClose ==
  /\ app.session # Null
  /\ TotalChecked(ValueOf(app.session)) > 0
  /\ UserAction("handleResultClose", appReducer(app, [type |-> "END_SESSION"], now))

Check ==
  \E id \in ProblemIds, r \in CheckResults : UserAction("handleCheck", handleCheck(id, r))

\* The user at the top bar and the session controls, and the clock.
NextApp ==
  \/ ToggleOp
  \/ MaxDigitsSlider
  \/ DifficultyButton
  \/ TestModeButton
  \/ OutsideClick
  \/ SessionSizeSlider
  \/ StartButton
  \/ ConfirmFinish
  \/ EndSessionButton
  \/ ResultClose
  \/ Check
  \/ Tick

SpecApp == InitReducer /\ [][NextApp]_vars

(***************************************************************************)
(* progression: automatic adjustment of maxDigits and difficulty.          *)
(***************************************************************************)

DIGITS_VALUES_TO_SEVEN == <<1, 2, 3, 4, 5, 6, 7>>

DIGITS_VALUES == <<1, 2, 3, 4, 5, 6>>
DIFFICULTY_ORDER == <<"Easy", "Medium", "Hard">>

\* arr.indexOf(v): the 0-based index of the first element equal to v, or -1.
IndexOf(arr, v) ==
  IF \E i \in DOMAIN arr : arr[i] = v
  THEN (CHOOSE i \in DOMAIN arr : arr[i] = v /\ \A j \in 1..(i - 1) : arr[j] # v) - 1
  ELSE -1

\* arr[i] for a 0-based index i.
At(arr, i) == arr[i + 1]

\* The result with maxDigits one value up or down, or else the difficulty,
\* or else nothing changed; step is 1 or -1 and room says whether an index
\* can take the step.
Progress(currentMaxDigits, currentDifficulty, step, digitsRoom, difficultyRoom) ==
  IF digitsRoom
  THEN [newMaxDigits |-> At(DIGITS_VALUES, IndexOf(DIGITS_VALUES, currentMaxDigits) + step),
        newDifficulty |-> currentDifficulty, changed |-> TRUE]
  ELSE IF difficultyRoom
  THEN [newMaxDigits |-> currentMaxDigits,
        newDifficulty |-> At(DIFFICULTY_ORDER, IndexOf(DIFFICULTY_ORDER, currentDifficulty) + step),
        changed |-> TRUE]
  ELSE [newMaxDigits |-> currentMaxDigits, newDifficulty |-> currentDifficulty,
        changed |-> FALSE]

\* computeProgression(currentMaxDigits, currentDifficulty, streaks).
computeProgression(currentMaxDigits, currentDifficulty, streaks) ==
  IF streaks.correctInARow >= 5
  THEN Progress(currentMaxDigits, currentDifficulty, 1,
                IndexOf(DIGITS_VALUES, currentMaxDigits) < Len(DIGITS_VALUES) - 1,
                IndexOf(DIFFICULTY_ORDER, currentDifficulty) < Len(DIFFICULTY_ORDER) - 1)
  ELSE IF streaks.incorrectInARow >= 3
  THEN Progress(currentMaxDigits, currentDifficulty, -1,
                IndexOf(DIGITS_VALUES, currentMaxDigits) > 0,
                IndexOf(DIFFICULTY_ORDER, currentDifficulty) > 0)
  ELSE [newMaxDigits |-> currentMaxDigits, newDifficulty |-> currentDifficulty,
        changed |-> FALSE]

\* Bounds of the streaks computeProgression is called with.
MaxCorrectInARow == 6
MaxIncorrectInARow == 4

Streaks == [correctInARow : 0..MaxCorrectInARow, incorrectInARow : 0..MaxIncorrectInARow]

\* A caller calls computeProgression and keeps the arguments and the result.
CallComputeProgression(m, d, streaks) ==
  /\ progression' = [called |-> TRUE, currentMaxDigits |-> m, currentDifficulty |-> d,
                     streaks |-> streaks, result |-> computeProgression(m, d, streaks)]
  /\ UNCHANGED <<genVars, rngVars, app, pointerVars, storageVars>>

NextProgression ==
  \E m \in MaxDigitsValues, d \in Difficulties, streaks \in Streaks :
    CallComputeProgression(m, d, streaks)

SpecProgression == InitReducer /\ [][NextProgression]_vars

(***************************************************************************)
(* strokeModel and inkRenderer: strokes and what is drawn of them.         *)
(***************************************************************************)

\* The id `stroke-${Date.now()}-${++strokeCounter}`; t is the clock's value
\* and n the counter after its increment.
StrokeId(t, n) ==
  <<"s", "t", "r", "o", "k", "e", "-">> \o DecimalString(t) \o <<"-">> \o DecimalString(n)

\* createStroke(color, size, mode), at time t with the counter incremented
\* to n.
createStroke(color, size, mode, t, n) ==
  [id |-> StrokeId(t, n), color |-> color, size |-> size, mode |-> mode, points |-> <<>>]

\* addPoint(stroke, point): stroke.points.push(point).
addPoint(stroke, point) == [stroke EXCEPT !.points = Append(@, point)]

\* The compositing and the paint of a stroke (setupStrokeStyle, and the same
\* test in drawStrokeStart).
CompositeOf(stroke) == IF stroke.mode = "eraser" THEN "destination-out" ELSE "source-over"
PaintOf(stroke) == IF stroke.mode = "eraser" THEN "rgba(0,0,0,1)" ELSE stroke.color

\* drawStrokeStart(ctx, stroke): a dot of diameter stroke.size at the first
\* point.  The canvas is the sequence of what was drawn on it.
drawStrokeStart(ops, stroke) ==
  IF Len(stroke.points) = 0 THEN ops
  ELSE Append(ops, [op |-> "arc", composite |-> CompositeOf(stroke),
                    paint |-> PaintOf(stroke), diameter |-> stroke.size,
                    path |-> <<stroke.points[1]>>])

drawStrokeSegmentFromPoint(ops, stroke, fromIndex) ==
  IF Len(stroke.points) < 2 \/ fromIndex < 1 THEN ops
  ELSE Append(ops, [op |-> "stroke", composite |-> CompositeOf(stroke),
                    paint |-> PaintOf(stroke), diameter |-> stroke.size,
                    path |-> SubSeq(stroke.points, fromIndex + 1, Len(stroke.points))])

\* drawStrokeSegment(ctx, stroke, fromIndex): the path from point
\* fromIndex - 1 to the last point; indices are 0-based in the code.
drawStrokeSegment(ops, stroke, fromIndex) ==
  IF Len(stroke.points) < 2 \/ fromIndex < 1 THEN ops
  ELSE Append(ops, [op |-> "stroke", composite |-> CompositeOf(stroke),
                    paint |-> PaintOf(stroke), diameter |-> stroke.size,
                    path |-> SubSeq(stroke.points, fromIndex, Len(stroke.points))])

(***************************************************************************)
(* PointerController: pointer input on the ink canvas of a ProblemCanvas.  *)
(***************************************************************************)

\* Width and height of the ink canvas (CANVAS_WIDTH, CANVAS_HEIGHT).
CanvasWidth == 400
CanvasHeight == 300

\* canvas.getBoundingClientRect(): the canvas laid out at its own size.
BoundingRect == [left |-> 10, top |-> 20, width |-> CanvasWidth, height |-> CanvasHeight]

\* The pointers of the device: a mouse, a pen and two fingers.  A pointer id
\* belongs to one pointer, so its type never changes.
PointerIds == {1, 2, 3, 4}
PointerTypeOf(id) ==
  CASE id = 1 -> "mouse"
    [] id = 2 -> "pen"
    [] OTHER -> "touch"

EventTypes == {"pointerdown", "pointermove", "pointerup", "pointercancel", "pointerleave"}

\* A pointer event of the given type from the given pointer, over the
\* canvas; a move is a little to the right of where the pointer went down.
\* The pressure is in thousandths; a finger reports none.
PointerEventOf(type, id) ==
  [type |-> type, pointerId |-> id, pointerType |-> PointerTypeOf(id),
   clientX |-> BoundingRect.left + 5 * id + (IF type = "pointermove" THEN 3 ELSE 0),
   clientY |-> BoundingRect.top + 7,
   pressure |-> IF PointerTypeOf(id) = "touch" THEN 0 ELSE 500]

\* getCanvasPoint(e), Date.now() returning t.
getCanvasPoint(e, t) ==
  [x |-> ((e.clientX - BoundingRect.left) * CanvasWidth) \div BoundingRect.width,
   y |-> ((e.clientY - BoundingRect.top) * CanvasHeight) \div BoundingRect.height,
   t |-> t,
   pressure |-> IF e.pressure > 0 THEN Some(e.pressure) ELSE Null]

\* The tool getters of ProblemCanvas: the refs hold the toolSettings of the
\* last render.
getColor == app.toolSettings.color
getSize == app.toolSettings.size
getMode == app.toolSettings.mode

\* The guards of onPointerDown: palm rejection, and a stroke active from
\* another pointer.
PalmRejected(e) == isPenActive /\ e.pointerType = "touch"

NoConcurrentPointer(e) == FALSE

ConcurrentPointer(e) == activeStroke # Null /\ activePointerId # Some(e.pointerId)

\* The stroke onPointerDown creates: createStroke reads the clock, then
\* getCanvasPoint reads it, within the same millisecond.
StrokeStarted(e) ==
  addPoint(createStroke(getColor, getSize, getMode, now, strokeCounter + 1),
           getCanvasPoint(e, now))

\* onPointerDown(e).
onPointerDown(e) ==
  IF PalmRejected(e) \/ ConcurrentPointer(e)
  THEN UNCHANGED <<controllerVars, pointerCapture, strokeCounter, canvasOps>>
  ELSE /\ isPenActive' = (isPenActive \/ e.pointerType = "pen")
       /\ activePointerId' = Some(e.pointerId)
       /\ pointerCapture' = Some(e.pointerId)
       /\ strokeCounter' = strokeCounter + 1
       /\ activeStroke' = Some(StrokeStarted(e))
       /\ lastPointIndex' = 0
       /\ canvasOps' = drawStrokeStart(canvasOps, StrokeStarted(e))

MoveIgnoredWhenIdle(e) == activeStroke = Null

\* The first guard of onPointerMove.
MoveIgnored(e) == activeStroke = Null \/ activePointerId # Some(e.pointerId)

\* The active stroke with the point of e added.
StrokeExtended(e) == addPoint(ValueOf(activeStroke), getCanvasPoint(e, now))

\* onPointerMove(e).
onPointerMove(e) ==
  IF MoveIgnored(e) \/ PalmRejected(e)
  THEN UNCHANGED <<controllerVars, canvasOps>>
  ELSE /\ activeStroke' = Some(StrokeExtended(e))
       /\ canvasOps' = drawStrokeSegment(canvasOps, StrokeExtended(e), lastPointIndex + 1)
       /\ lastPointIndex' = Len(StrokeExtended(e).points) - 1
       /\ UNCHANGED <<isPenActive, activePointerId>>

UpIgnoredWhenIdle(e) == activeStroke = Null

\* The guard of onPointerUp.
UpIgnored(e) == activeStroke = Null \/ activePointerId # Some(e.pointerId)

PenActiveKept(e) == isPenActive

\* isPenActive after an accepted pointer-up.
PenActiveAfterUp(e) == IF e.pointerType = "pen" THEN FALSE ELSE isPenActive

onStrokeCompleteRestyled(list, stroke) == Append(list, Spread(stroke, app.toolSettings))

\* The onStrokeComplete callback of ProblemCanvas:
\* strokesRef.current = [...strokesRef.current, stroke].
onStrokeComplete(list, stroke) == Append(list, stroke)

\* onPointerUp(e), the handler of pointerup, pointercancel and pointerleave.
onPointerUp(e) ==
  IF UpIgnored(e)
  THEN UNCHANGED <<controllerVars, strokes>>
  ELSE /\ isPenActive' = PenActiveAfterUp(e)
       /\ strokes' = onStrokeComplete(strokes, ValueOf(activeStroke))
       /\ activeStroke' = Null
       /\ activePointerId' = Null
       /\ lastPointIndex' = 0

\* The browser releases the capture of a pointer after its pointerup or
\* pointercancel.
ReleasedCapture(e) ==
  IF e.type \in {"pointerup", "pointercancel"} /\ pointerCapture = Some(e.pointerId)
  THEN Null
  ELSE pointerCapture

\* The canvas dispatches e: the listener registered for its type runs.
DispatchEvent(e) ==
  /\ event' = e
  /\ IF <<e.type, "onPointerDown">> \in listeners
     THEN onPointerDown(e) /\ UNCHANGED strokes
     ELSE /\ pointerCapture' = ReleasedCapture(e)
          /\ UNCHANGED strokeCounter
          /\ IF <<e.type, "onPointerMove">> \in listeners
             THEN onPointerMove(e) /\ UNCHANGED strokes
             ELSE IF <<e.type, "onPointerUp">> \in listeners
             THEN onPointerUp(e) /\ UNCHANGED canvasOps
             ELSE UNCHANGED <<controllerVars, strokes, canvasOps>>
  /\ UNCHANGED <<genVars, rngVars, app, listeners, progression, storageVars>>

RemovedByDestroyButLeave ==
  {<<"pointerdown", "onPointerDown">>, <<"pointermove", "onPointerMove">>,
   <<"pointerup", "onPointerUp">>, <<"pointercancel", "onPointerUp">>}

\* The listeners destroy() removes.
RemovedByDestroy ==
  {<<"pointerdown", "onPointerDown">>, <<"pointermove", "onPointerMove">>,
   <<"pointerup", "onPointerUp">>, <<"pointercancel", "onPointerUp">>,
   <<"pointerleave", "onPointerUp">>}

\* Bounds of the pointer model: strokes created, points of one stroke.
MaxStrokes == 2
MaxPoints == 2

\* The pointer events, while the bounds leave room for their effect.
PointerDown(id) ==
  /\ strokeCounter < MaxStrokes
  /\ DispatchEvent(PointerEventOf("pointerdown", id))

PointerMove(id) ==
  /\ activePointerId = Some(id) => Len(ValueOf(activeStroke).points) < MaxPoints
  /\ DispatchEvent(PointerEventOf("pointermove", id))

PointerUp(id) == DispatchEvent(PointerEventOf("pointerup", id))
PointerCancel(id) == DispatchEvent(PointerEventOf("pointercancel", id))
PointerLeave(id) == DispatchEvent(PointerEventOf("pointerleave", id))

\* controller.destroy(), called by the effect's cleanup when the
\* ProblemCanvas unmounts (and, here, by any holder of the controller again).
Destroy ==
  /\ listeners' = listeners \ RemovedByDestroy
  /\ event' = [type |-> "destroy"]
  /\ UNCHANGED <<genVars, rngVars, app, controllerVars, pointerCapture,
                 strokeCounter, strokes, canvasOps, progression, storageVars>>

InitPointer ==
  /\ config = DefaultConfig
  /\ now = 0
  /\ pc = "idle"
  /\ call = NoCall
  /\ result = NoValue
  /\ again = NoValue
  /\ rngState = SeededRng(Word(0))
  /\ draws = 0
  /\ ret = NoReturn
  /\ UiCreated

\* Every pointer event at any time, and destroy().  The clock stands still
\* here: no handler branches on the time it reads.
NextPointer ==
  \/ \E id \in PointerIds : PointerDown(id)
  \/ \E id \in PointerIds : PointerMove(id)
  \/ \E id \in PointerIds : PointerUp(id)
  \/ \E id \in PointerIds : PointerCancel(id)
  \/ \E id \in PointerIds : PointerLeave(id)
  \/ Destroy

SpecPointer == InitPointer /\ [][NextPointer]_vars

\* A click in the tool bar of Shell: the action is dispatched, and the render
\* that follows stores the new toolSettings in the refs the getters read.
ToolClick(action) ==
  /\ Dispatch(action)
  /\ UNCHANGED <<genVars, rngVars, pointerVars, progression, storageVars>>

SetToolMode(m) == ToolClick([type |-> "SET_TOOL_MODE", payload |-> m])
SetToolSize(n) == ToolClick([type |-> "SET_TOOL_SIZE", payload |-> n])
SetToolColor(c) == ToolClick([type |-> "SET_TOOL_COLOR", payload |-> c])

\* Drawing with the mouse while the tool is changed.
DrawingPointerIds == {1}

NextTools ==
  \/ \E id \in DrawingPointerIds : PointerDown(id)
  \/ \E id \in DrawingPointerIds : PointerMove(id)
  \/ \E id \in DrawingPointerIds : PointerUp(id)
  \/ \E m \in ToolModes : SetToolMode(m)
  \/ \E n \in ToolSizes : SetToolSize(n)
  \/ \E c \in ToolColors : SetToolColor(c)

SpecTools == InitPointer /\ [][NextTools]_vars



\* Drawing with the mouse while time passes: Date.now() counts milliseconds,
\* and any number of events fits in one of them.
NextPointerClock ==
  \/ \E id \in DrawingPointerIds : PointerDown(id)
  \/ \E id \in DrawingPointerIds : PointerMove(id)
  \/ \E id \in DrawingPointerIds : PointerUp(id)
  \/ Tick

SpecPointerClock == InitPointer /\ [][NextPointerClock]_vars

(***************************************************************************)
(* inkRenderer: the full-stroke path, and what a canvas shows.             *)
(***************************************************************************)

\* drawFullStroke(ctx, stroke): a dot for a stroke of one point, else one
\* path through all its points.
drawFullStroke(ops, stroke) ==
  IF Len(stroke.points) = 0 THEN ops
  ELSE IF Len(stroke.points) = 1
  THEN Append(ops, [op |-> "arc", composite |-> CompositeOf(stroke),
                    paint |-> PaintOf(stroke), diameter |-> stroke.size,
                    path |-> <<stroke.points[1]>>])
  ELSE Append(ops, [op |-> "stroke", composite |-> CompositeOf(stroke),
                    paint |-> PaintOf(stroke), diameter |-> stroke.size,
                    path |-> stroke.points])

\* The loop of redrawAllStrokes from the i-th stroke of the list on.
RECURSIVE drawFullStrokes(_, _, _)
drawFullStrokes(ops, list, i) ==
  IF i > Len(list) THEN ops
  ELSE drawFullStrokes(drawFullStroke(ops, list[i]), list, i + 1)

\* ctx.clearRect over the whole canvas: nothing drawn is left.
clearRect == <<>>

\* redrawAllStrokes(ctx, strokes, width, height): the canvas afterwards.
redrawAllStrokes(list) == drawFullStrokes(clearRect, list, 1)

\* Where a point is on the canvas.
Place(point) == <<point.x, point.y>>

\* The compositing, paint and width of a drawing operation.
StyleOf(o) == [composite |-> o.composite, paint |-> o.paint, diameter |-> o.diameter]

\* What an operation covers, whatever its style: the disc at each point of
\* its path ({p}) and the band between each two consecutive points ({p, q}).
\* With round caps and round joins a stroked path is exactly the union of
\* these.
CoverOf(o) ==
  {{Place(o.path[k])} : k \in DOMAIN o.path}
    \cup {{Place(o.path[k]), Place(o.path[k + 1])} : k \in 1..(Len(o.path) - 1)}

\* The layers painted by the operations from the i-th on, after the layers
\* acc.  Operations of one style that follow one another paint one layer,
\* the union of what they cover: the paint is opaque, or erases fully, so
\* painting a place twice shows the same as painting it once.
RECURSIVE LayersFrom(_, _, _)
LayersFrom(ops, i, acc) ==
  IF i > Len(ops) THEN acc
  ELSE IF Len(acc) > 0 /\ acc[Len(acc)].style = StyleOf(ops[i])
  THEN LayersFrom(ops, i + 1,
                  [acc EXCEPT ![Len(acc)].cover = @ \cup CoverOf(ops[i])])
  ELSE LayersFrom(ops, i + 1,
                  Append(acc, [style |-> StyleOf(ops[i]), cover |-> CoverOf(ops[i])]))

\* What the canvas shows after the operations: its layers from bottom to
\* top.  Equal rasters mean equal pixels up to anti-aliasing.
Raster(ops) == LayersFrom(ops, 1, <<>>)

(***************************************************************************)
(* ProblemCanvas: the undo and clear buttons of a card, and clear-all.     *)
(***************************************************************************)

\* handleUndo: drop the last stroke of the list and redraw the rest.
handleUndo ==
  /\ strokes' = SubSeq(strokes, 1, Len(strokes) - 1)
  /\ canvasOps' = redrawAllStrokes(strokes')

\* handleClear: empty the list and clear the ink canvas.
handleClear ==
  /\ strokes' = <<>>
  /\ canvasOps' = clearRect

\* A click on a button of the card, or a change of clearInkVersion: none of
\* the handlers reads or writes the controller.
CanvasAction(name, handler) ==
  /\ handler
  /\ event' = [type |-> name]
  /\ UNCHANGED <<genVars, rngVars, app, controllerVars, listeners,
                 pointerCapture, strokeCounter, progression, storageVars>>

HandleUndo == CanvasAction("undo", handleUndo)

HandleClear == CanvasAction("clear", handleClear)

\* handleClearAll of App bumps clearInkVersion; the effect of each mounted
\* card then calls handleClear.
ClearAll == CanvasAction("clearAll", handleClear)

\* One card: the mouse draws with pen or eraser while the buttons of the
\* card and clear-all are used.
NextCanvas ==
  \/ \E id \in DrawingPointerIds : PointerDown(id)
  \/ \E id \in DrawingPointerIds : PointerMove(id)
  \/ \E id \in DrawingPointerIds : PointerUp(id)
  \/ \E id \in DrawingPointerIds : PointerCancel(id)
  \/ \E id \in DrawingPointerIds : PointerLeave(id)
  \/ \E mode \in ToolModes : SetToolMode(mode)
  \/ HandleUndo
  \/ HandleClear
  \/ ClearAll

SpecCanvas == InitPointer /\ [][NextCanvas]_vars

(***************************************************************************)
(* LocalStorageAdapter: the stored session summaries.                      *)
(***************************************************************************)

\* MAX_STORED_SESSIONS.
MAX_STORED_SESSIONS == 100

\* Array.prototype.slice(0, limit).
slice(list, limit) == SubSeq(list, 1, IF limit < Len(list) THEN limit ELSE Len(list))

\* listSessions(limit), up to its return: the item is read and parsed when
\* the function is called; a missing item gives [].
listSessions(limit) ==
  IF storedSessions = Null THEN <<>> ELSE slice(ValueOf(storedSessions), limit)

\* appendSession after its await: sessions.unshift(summary), the length cut
\* to MAX_STORED_SESSIONS, and the list written back.
sessionsWritten(sessions, summary) == slice(<<summary>> \o sessions, MAX_STORED_SESSIONS)

\* The number of appendSession calls made in a run.
MaxAppends == 4

\* A summary stands for its session: the n-th session finished has summary
\* n; the sessions finished before the run have summaries -1 (the last of
\* them), -2, ...
OlderSummaries == [k \in 1..MAX_STORED_SESSIONS |-> 0 - k]

\* appendSession(summary) is called: it calls listSessions, which reads the
\* item at once, and is suspended at the await with the list it read.
AppendSessionCall ==
  /\ appendCalls < MaxAppends
  /\ appendCalls' = appendCalls + 1
  /\ appendsInFlight' = Append(appendsInFlight,
                               [summary |-> appendCalls + 1,
                                sessions |-> listSessions(MAX_STORED_SESSIONS)])
  /\ UNCHANGED <<genVars, rngVars, app, pointerVars, progression, storedSessions>>

\* The oldest suspended appendSession is resumed by the microtask queue and
\* runs to its end.
AppendSessionResume ==
  /\ appendsInFlight # <<>>
  /\ storedSessions' = Some(sessionsWritten(Head(appendsInFlight).sessions,
                                            Head(appendsInFlight).summary))
  /\ appendsInFlight' = Tail(appendsInFlight)
  /\ UNCHANGED <<genVars, rngVars, app, pointerVars, progression, appendCalls>>

\* The browser's storage at start: never used, emptied, holding one older
\* summary, or full.
InitStorage ==
  /\ config = DefaultConfig
  /\ now = 0
  /\ pc = "idle"
  /\ call = NoCall
  /\ result = NoValue
  /\ again = NoValue
  /\ rngState = SeededRng(Word(0))
  /\ draws = 0
  /\ ret = NoReturn
  /\ AppCreated
  /\ ControllerConstructed
  /\ event = NoEvent
  /\ progression = NoProgression
  /\ storedSessions \in {Null, Some(<<>>), Some(slice(OlderSummaries, 1)),
                         Some(OlderSummaries)}
  /\ appendsInFlight = <<>>
  /\ appendCalls = 0

NextStorage ==
  \/ AppendSessionCall
  \/ AppendSessionResume

SpecStorage == InitStorage /\ [][NextStorage]_vars

(***************************************************************************)
(* Properties of the problem factory and the rules engine (SpecGen).       *)
(***************************************************************************)

\* The problems a returned value holds.
ProblemsIn(v) ==
  IF v.kind = "problem" THEN {v.value}
  ELSE IF v.kind = "batch" THEN {v.value[k] : k \in DOMAIN v.value}
  ELSE {}

\* Every problem generated so far and still held by the caller.
Generated == ProblemsIn(result) \cup ProblemsIn(again)

\* The run of generateOperands that produced problem p.
RunOf(p) ==
  LET sel == selectOperation(forProblem(p.seed, p.index), config)
  IN  operandsRun(sel.state, sel.value, config, DefaultMaxAttempts)

\* Two problems agree on everything but createdAt.
SameProblem(p, q) ==
  /\ p.a = q.a /\ p.b = q.b /\ p.op = q.op
  /\ p.aDigits = q.aDigits /\ p.bDigits = q.bDigits
  /\ p.id = q.id

\* C1: generateProblem called again with the same seed, index and
\* configuration, at whatever later time, returns a problem with the same
\* a, b, op, aDigits, bDigits and id as the first call.
C1_Determinism ==
  again.kind = "problem" =>
    /\ result.kind = "problem"
    /\ SameProblem(result.value, again.value)

\* C1 witness: the same call has returned twice, at two different times.
C1_Witness ==
  /\ again.kind = "problem"
  /\ result.kind = "problem"
  /\ again.value.createdAt > result.value.createdAt

\* The batch ps is what the call of generateProblems in progress must return:
\* exactly count problems; the i-th has index startIndex + i, the ids are
\* pairwise distinct, each element has the (a, b, op) generateProblem returns
\* for its index alone, and the batch of one problem less is a prefix of it.
BatchIsIndexwise(ps) ==
  /\ Len(ps) = call.count
  /\ \A k \in DOMAIN ps : ps[k].index = call.startIndex + k - 1
  /\ \A j, k \in DOMAIN ps : j # k => ps[j].id # ps[k].id
  /\ \A k \in DOMAIN ps :
       LET alone == generateProblem(call.seed, call.startIndex + k - 1, config, now)
       IN  ps[k].a = alone.a /\ ps[k].b = alone.b /\ ps[k].op = alone.op
  /\ call.count > 0 =>
       LET shorter == generateProblems(call.seed, call.startIndex,
                                       call.count - 1, config, now)
       IN  /\ Len(shorter) = call.count - 1
           /\ \A k \in DOMAIN shorter : SameProblem(shorter[k], ps[k])

\* C2: whenever generateProblems returns, it returns exactly count problems;
\* the i-th has index startIndex + i, the ids are pairwise distinct, each
\* element has the (a, b, op) generateProblem returns for its index alone,
\* and the batch of one problem less is a prefix of it.
C2_BatchIsIndexwise ==
  [][(pc = "called" /\ call.fn = "generateProblems" /\ pc' = "idle") =>
       (result'.kind = "batch" /\ BatchIsIndexwise(result'.value))]_vars

\* C2 witness: a batch of at least two problems has been returned.
C2_Witness ==
  /\ result.kind = "batch"
  /\ call.fn = "generateProblems"
  /\ Len(result.value) >= 2
  /\ call.startIndex > 0

\* C3: every generated subtraction problem has a >= b, so its answer is not
\* negative.
C3_SubtractionNonNegative ==
  \A p \in Generated :
    p.op = "subtraction" => (p.a >= p.b /\ computeAnswer(p.a, p.b, "subtraction") >= 0)

\* C3 witness: a subtraction problem returned after the Easy loop ran out of
\* attempts (its pair has a borrow), in a batch that also holds a subtraction
\* problem whose pair was drawn with b > a and swapped.
C3_Witness ==
  /\ \E p \in Generated :
       /\ p.op = "subtraction"
       /\ RunOf(p).path = "exhausted"
       /\ hasBorrow(p.a, p.b)
  /\ \E q \in Generated :
       /\ q.op = "subtraction"
       /\ RunOf(q).drawnB > RunOf(q).drawnA
       /\ q.a = RunOf(q).drawnB

\* C4: the product of every generated multiplication problem has at most 7
\* decimal digits.
C4_ProductFits ==
  \A p \in Generated :
    p.op = "multiplication" => countDigitsWide(Product(p.a, p.b)) <= 7

\* C4 witness: a multiplication problem from the fallback, all 20 attempts
\* having failed, whose b was halved.
C4_Witness ==
  \E p \in Generated :
    /\ p.op = "multiplication"
    /\ RunOf(p).path = "fallback"
    /\ RunOf(p).draws = DefaultMaxAttempts + 1
    /\ p.b < RunOf(p).drawnB

\* C5: the digit counts of every generated problem are within 1..maxDigits,
\* and neither operand has more than maxDigits decimal digits.
C5_DigitBounds ==
  \A p \in Generated :
    /\ 1 <= p.aDigits /\ p.aDigits <= config.maxDigits
    /\ 1 <= p.bDigits /\ p.bDigits <= config.maxDigits
    /\ countDigits(p.a) <= config.maxDigits
    /\ countDigits(p.b) <= config.maxDigits

\* C5 witness: a problem whose operands both have exactly maxDigits digits,
\* with maxDigits = 6.
C5_Witness ==
  \E p \in Generated :
    /\ config.maxDigits = 6
    /\ p.aDigits = 6 /\ countDigits(p.a) = 6
    /\ p.bDigits = 6 /\ countDigits(p.b) = 6

\* C6: aDigits is the number of decimal digits of a, and bDigits that of b.
C6_DigitCountsDescribeOperands ==
  \A p \in Generated :
    p.aDigits = countDigits(p.a) /\ p.bDigits = countDigits(p.b)

\* C7: the second operand of a multiplication problem is capped by the
\* difficulty: Easy, bDigits = 1 and b <= 9; Medium, bDigits <= min(2,
\* maxDigits) and b <= 99; Hard, bDigits <= maxDigits.
C7_MultiplicationCaps ==
  \A p \in Generated :
    p.op = "multiplication" =>
      /\ config.difficulty = "Easy" => (p.bDigits = 1 /\ p.b <= 9)
      /\ config.difficulty = "Medium" =>
           /\ p.bDigits <= 2 /\ p.bDigits <= config.maxDigits
           /\ p.b <= 99
      /\ config.difficulty = "Hard" => p.bDigits <= config.maxDigits

\* C7 witness: an Easy multiplication problem under maxDigits = 6 whose first
\* operand has several digits, and so shows the cap on the second.
C7_Witness ==
  \E p \in Generated :
    /\ p.op = "multiplication"
    /\ config.difficulty = "Easy"
    /\ config.maxDigits = 6
    /\ p.aDigits > 1
    /\ p.bDigits = 1

\* C8: the operation of every generated problem is enabled in the
\* configuration; it is addition when no operation is enabled.
C8_OperationEnabled ==
  \A p \in Generated :
    IF \E o \in Operations : config.operations[o]
    THEN p.op \in Operations /\ config.operations[p.op]
    ELSE p.op = "addition"

\* C8 witness: a problem generated with no operation enabled.
C8_Witness ==
  /\ \A o \in Operations : ~config.operations[o]
  /\ \E p \in Generated : p.op = "addition"

(***************************************************************************)
(* Properties of the generator (SpecRng).                                  *)
(***************************************************************************)

\* The numerator u = <<hi, lo>> of a float u / 2^32 lies in 0 .. 2^32 - 1:
\* the float is in [0, 1).
InUnitInterval(u) ==
  /\ 0 <= u[1] /\ u[1] < LimbBase
  /\ 0 <= u[2] /\ u[2] < LimbBase

\* k = floor(u * n / 2^32), for n below 2^15: k * 2^32 <= u * n < (k + 1) * 2^32.
IsFloorScale(k, u, n) ==
  LET upper == u[1] * n - k * LimbBase
  IN  0 <= upper + ((u[2] * n) \div LimbBase) /\ upper + ((u[2] * n) \div LimbBase) < LimbBase

\* C9: next() returns a value in [0, 1); nextInt(min, max) with min <= max
\* returns an integer in [min, max], which is min + floor(next() * (max - min + 1)).
C9_RngRange ==
  /\ ret.fn = "next" => InUnitInterval(ret.value)
  /\ ret.fn = "nextInt" =>
       /\ ret.min <= ret.value /\ ret.value <= ret.max
       /\ InUnitInterval(ret.raw)
       /\ (ret.max - ret.min + 1 < 32768) =>
            IsFloorScale(ret.value - ret.min, ret.raw, ret.max - ret.min + 1)

\* C9 witness: nextInt has returned the upper end of a range of more than one
\* value, drawn from the upper half of the 32-bit outputs.
C9_Witness ==
  /\ ret.fn = "nextInt"
  /\ ret.min < ret.max
  /\ ret.value = ret.max
  /\ ret.raw[1] >= 32768

\* C10: pick called with an empty list fails with an error.
C10_PickEmptyThrows ==
  (ret.fn = "pick" /\ Len(ret.arr) = 0) => ret.threw

(***************************************************************************)
(* Properties of the problem factory under an invalid configuration        *)
(* (SpecInvalid).                                                          *)
(***************************************************************************)

\* C11: generateProblem called with a configuration whose maxDigits is
\* outside 1..6 fails with a validation error: it returns no problem.
C11_InvalidMaxDigitsRejected ==
  (call.fn = "generateProblem" /\ pc = "idle" /\ config.maxDigits \notin MaxDigitsValues)
    => result.kind = "error"



(***************************************************************************)
(* Properties of the pointer controller (SpecPointer).                     *)
(***************************************************************************)

\* A stroke begun by the pen is active.
PenStrokeActive ==
  /\ activeStroke # Null
  /\ isPenActive
  /\ PointerTypeOf(ValueOf(activePointerId)) = "pen"

\* The step delivers a pointer event of the given pointer type.
Delivers(pointerType) == event'.type \in EventTypes /\ event'.pointerType = pointerType

\* C12: palm rejection.  While a pen stroke is active, a touch event of any
\* type (down, move, up, cancel, leave) creates no stroke, appends no point,
\* draws nothing and completes nothing; and a step that hands a stroke to
\* onStrokeComplete while the pen stroke is active is a pen event handing
\* over exactly the pen's stroke.
C12_PalmRejection ==
  [][PenStrokeActive =>
       /\ Delivers("touch") =>
            UNCHANGED <<activeStroke, strokes, strokeCounter, canvasOps, controllerVars>>
       /\ strokes' # strokes =>
            /\ Delivers("pen")
            /\ strokes' = Append(strokes, ValueOf(activeStroke))]_vars

\* A finger went down during a pen stroke of two points, and the pen stroke
\* is still the active one.
C12_Witness ==
  /\ PenStrokeActive
  /\ event.type = "pointerdown"
  /\ event.pointerType = "touch"
  /\ Len(ValueOf(activeStroke).points) = 2


\* The step delivers an event of the given type from a pointer other than
\* the one the active stroke is bound to.
DeliversFromOther(type) ==
  /\ event'.type = type
  /\ Some(event'.pointerId) # activePointerId

\* C13: single active stroke.  In every state the active stroke, if any, is
\* bound to exactly one pointer id, and no pointer id is held without a
\* stroke; while a stroke is active a pointer-down from another id creates
\* no stroke and leaves the bound id alone, and a pointer-move from another
\* id appends no point.
C13_SingleActiveStroke ==
  /\ [](/\ (activeStroke = Null) <=> (activePointerId = Null)
        /\ activePointerId # Null => ValueOf(activePointerId) \in PointerIds)
  /\ [][activeStroke # Null =>
          /\ DeliversFromOther("pointerdown") =>
               UNCHANGED <<activeStroke, activePointerId, strokeCounter, canvasOps>>
          /\ DeliversFromOther("pointermove") =>
               UNCHANGED <<activeStroke, canvasOps>>]_vars

\* The mouse went down during a finger's stroke (no pen involved), and the
\* finger's stroke is still the active one.
C13_Witness ==
  /\ activeStroke # Null
  /\ ~isPenActive
  /\ PointerTypeOf(ValueOf(activePointerId)) = "touch"
  /\ event.type = "pointerdown"
  /\ event.pointerType = "mouse"


\* s is an initial part of t.
IsPrefix(s, t) == Len(s) <= Len(t) /\ SubSeq(t, 1, Len(s)) = s

\* The step delivers a pointerup, pointercancel or pointerleave to
\* onPointerUp, a stroke is active and the event's pointer id is the one the
\* stroke is bound to.
UpAccepted ==
  /\ <<event'.type, "onPointerUp">> \in listeners
  /\ activeStroke # Null
  /\ Some(event'.pointerId) = activePointerId

\* C14: every accepted pointer-up, pointer-cancel or pointer-leave hands the
\* active stroke to onStrokeComplete exactly once (the stroke list grows by
\* that one stroke, as it was), then the controller is idle: no active
\* stroke, no bound pointer id, last point index 0, and pen-active cleared
\* when the pointer is a pen.  The stroke handed over holds every point
\* appended so far in order: while a stroke stays the active one its points
\* only grow at the end.
C14_UpCompletesStroke ==
  [][/\ UpAccepted =>
          /\ strokes' = Append(strokes, ValueOf(activeStroke))
          /\ activeStroke' = Null
          /\ activePointerId' = Null
          /\ lastPointIndex' = 0
          /\ event'.pointerType = "pen" => ~isPenActive'
     /\ (/\ activeStroke # Null
         /\ activeStroke' # Null
         /\ ValueOf(activeStroke').id = ValueOf(activeStroke).id) =>
          IsPrefix(ValueOf(activeStroke).points, ValueOf(activeStroke').points)]_vars

\* The pen's only stroke, of two points, was completed by a pointerleave: the
\* capture set at its pointer-down was never released, which a pointerup or
\* a pointercancel of the pen would have done.
C14_Witness ==
  /\ event.type = "pointerleave"
  /\ event.pointerType = "pen"
  /\ activeStroke = Null
  /\ activePointerId = Null
  /\ ~isPenActive
  /\ strokeCounter = 1
  /\ Len(strokes) = 1
  /\ Len(strokes[1].points) = 2
  /\ pointerCapture = Some(event.pointerId)


\* The step delivers an event that violates a guard: a move, up, cancel or
\* leave in Idle or from a pointer other than the bound one, or a down that
\* the concurrent-pointer guard or the palm-rejection guard rejects.
GuardViolated ==
  \/ /\ event'.type \in {"pointermove", "pointerup", "pointercancel", "pointerleave"}
     /\ activeStroke = Null \/ Some(event'.pointerId) # activePointerId
  \/ /\ event'.type = "pointerdown"
     /\ \/ activeStroke # Null /\ Some(event'.pointerId) # activePointerId
        \/ isPenActive /\ event'.pointerType = "touch"

\* C15: guard violations are silent no-ops.  An event that violates a guard
\* leaves activeStroke (and so its points), activePointerId, isPenActive and
\* lastPointIndex as they were, draws nothing, completes no stroke and
\* creates none.
C15_GuardViolationsAreNoOps ==
  [][GuardViolated =>
       UNCHANGED <<activeStroke, activePointerId, isPenActive, lastPointIndex,
                   canvasOps, strokes, strokeCounter>>]_vars

\* The mouse moved during a finger's stroke of two points, and was ignored
\* by the pointer-id guard alone (no pen is active).
C15_Witness ==
  /\ activeStroke # Null
  /\ ~isPenActive
  /\ PointerTypeOf(ValueOf(activePointerId)) = "touch"
  /\ Len(ValueOf(activeStroke).points) = 2
  /\ event.type = "pointermove"
  /\ event.pointerType = "mouse"


\* C16: teardown.  A destroy() leaves none of the five listeners the
\* constructor registered; and once none is registered, no step (a pointer
\* event of any type from any pointer, or another destroy()) registers one,
\* changes the controller's fields, draws, creates a stroke or completes one.
C16_Teardown ==
  [][/\ event'.type = "destroy" => listeners' \cap BoundListeners = {}
     /\ listeners \cap BoundListeners = {} =>
          UNCHANGED <<listeners, activeStroke, activePointerId, isPenActive,
                      lastPointIndex, canvasOps, strokes, strokeCounter>>]_vars

\* The controller was destroyed during a stroke, and the pointerup of the
\* stroke's own pointer came afterwards: the stroke is still there, not
\* completed.
C16_Witness ==
  /\ listeners = {}
  /\ activeStroke # Null
  /\ strokes = <<>>
  /\ event.type = "pointerup"
  /\ Some(event.pointerId) = activePointerId


(***************************************************************************)
(* Properties of drawing while the tool changes (SpecTools).               *)
(***************************************************************************)

\* The color, size and mode of a stroke.
ToolOf(stroke) == [color |-> stroke.color, size |-> stroke.size, mode |-> stroke.mode]

\* The step makes a new stroke the active one.
StrokeCreated ==
  /\ activeStroke' # Null
  /\ activeStroke = Null \/ ValueOf(activeStroke').id # ValueOf(activeStroke).id

\* C20: a stroke's color, size and mode are those of the tool at the accepted
\* pointer-down that creates it, and never change afterwards: not while the
\* stroke stays the active one, not when it is put in the stroke list, and
\* not in the list; a change of the tool's color, size or mode changes
\* neither the active stroke nor the list.
C20_ToolCapturedAtPointerDown ==
  [][/\ StrokeCreated => ToolOf(ValueOf(activeStroke')) = app.toolSettings
     /\ (activeStroke # Null /\ activeStroke' # Null /\ ~StrokeCreated) =>
          ToolOf(ValueOf(activeStroke')) = ToolOf(ValueOf(activeStroke))
     /\ Len(strokes') >= Len(strokes)
     /\ \A i \in DOMAIN strokes : strokes'[i] = strokes[i]
     /\ Len(strokes') > Len(strokes) =>
          /\ activeStroke # Null
          /\ ToolOf(strokes'[Len(strokes')]) = ToolOf(ValueOf(activeStroke))
     /\ app'.toolSettings # app.toolSettings => UNCHANGED <<activeStroke, strokes>>]_vars

\* The tool was changed after the first stroke was completed and again
\* during the second: the listed stroke and the active stroke both differ
\* from the tool in color, size and mode.
C20_Witness ==
  /\ Len(strokes) = 1
  /\ activeStroke # Null
  /\ strokes[1].color # app.toolSettings.color
  /\ strokes[1].size # ValueOf(activeStroke).size
  /\ ValueOf(activeStroke).size # app.toolSettings.size
  /\ ValueOf(activeStroke).mode # app.toolSettings.mode


(***************************************************************************)
(* Properties of the reducer (SpecReducer).                                *)
(***************************************************************************)

\* C17: after any sequence of actions through appReducer from the default
\* state, at least one of addition, subtraction and multiplication is
\* enabled in config.operations.
C17_SomeOperationEnabled ==
  \E op \in Operations : app.config.operations[op]


(***************************************************************************)
(* Properties of the top bar and the session controls (SpecApp).           *)
(***************************************************************************)

\* C18: while a session exists (active or completed), no step changes
\* config.operations, config.maxDigits or config.difficulty.
C18_SettingsLockedDuringSession ==
  [][app.session # Null =>
       /\ app'.config.operations = app.config.operations
       /\ app'.config.maxDigits = app.config.maxDigits
       /\ app'.config.difficulty = app.config.difficulty]_vars

\* The digits slider was tried during a completed session that was started
\* with six digits, subtraction and Hard: the settings are still those the
\* session's problems were made with.
C18_Witness ==
  /\ event.type = "maxDigitsSlider"
  /\ app.session # Null
  /\ ValueOf(app.session).status = "completed"
  /\ app.config.maxDigits = 6
  /\ app.config.difficulty = "Hard"
  /\ app.config.operations.subtraction
  /\ ValueOf(app.session).problems.config.maxDigits = app.config.maxDigits


(***************************************************************************)
(* Properties of the progression engine (SpecProgression).                 *)
(***************************************************************************)

\* The place of a difficulty between Easy and Hard.
DifficultyRank(d) == CASE d = "Easy" -> 0 [] d = "Medium" -> 1 [] d = "Hard" -> 2

\* What the rules ask of a call: the change of maxDigits and the change of
\* the difficulty's rank.
ExpectedChange(m, d, streaks) ==
  IF streaks.correctInARow >= 5
  THEN IF m < 6 THEN <<1, 0>> ELSE IF d # "Hard" THEN <<0, 1>> ELSE <<0, 0>>
  ELSE IF streaks.incorrectInARow >= 3
  THEN IF m > 1 THEN <<-1, 0>> ELSE IF d # "Easy" THEN <<0, -1>> ELSE <<0, 0>>
  ELSE <<0, 0>>

\* C19: for every maxDigits in 1..6, difficulty and streak pair,
\* computeProgression returns maxDigits in 1..6 and a difficulty of
\* Easy..Hard; it moves maxDigits one up when correctInARow >= 5, otherwise
\* one down when incorrectInARow >= 3, the difficulty one step instead when
\* maxDigits is at its bound, and nothing else; and changed is TRUE exactly
\* when the returned pair differs from the input pair.
C19_ProgressionOneStep ==
  progression.called =>
    /\ progression.result.newMaxDigits \in 1..6
    /\ progression.result.newDifficulty \in {"Easy", "Medium", "Hard"}
    /\ <<progression.result.newMaxDigits - progression.currentMaxDigits,
         DifficultyRank(progression.result.newDifficulty)
           - DifficultyRank(progression.currentDifficulty)>>
         = ExpectedChange(progression.currentMaxDigits, progression.currentDifficulty,
                          progression.streaks)
    /\ progression.result.changed <=>
         \/ progression.result.newMaxDigits # progression.currentMaxDigits
         \/ progression.result.newDifficulty # progression.currentDifficulty

\* Both streaks past their thresholds at six digits, Medium: the correct
\* streak wins and, the digits being at their bound, the difficulty goes up.
C19_Witness ==
  /\ progression.called
  /\ progression.currentMaxDigits = 6
  /\ progression.currentDifficulty = "Medium"
  /\ progression.streaks.correctInARow >= 5
  /\ progression.streaks.incorrectInARow >= 3
  /\ progression.result.newDifficulty = "Hard"
  /\ progression.result.changed

(***************************************************************************)
(* Properties of drawing while time passes (SpecPointerClock).             *)
(***************************************************************************)

\* Each point of the sequence has a timestamp greater than that of the
\* point before it.
StrictlyTimeOrdered(points) ==
  \A i \in 2..Len(points) : points[i].t > points[i - 1].t

\* The step keeps the active stroke and changes its points.
PointsChanged ==
  /\ activeStroke # Null
  /\ activeStroke' # Null
  /\ ValueOf(activeStroke').id = ValueOf(activeStroke).id
  /\ ValueOf(activeStroke').points # ValueOf(activeStroke).points

\* C21: within every stroke the points are append-only and strictly
\* time-ordered: a step that changes the points of the active stroke is a
\* pointer-move that appends exactly one point at the end, the points before
\* it being as they were; and in the active stroke and in every listed
\* stroke each point's timestamp is greater than that of the point before.
C21_PointsAppendOnlyTimeOrdered ==
  /\ [][PointsChanged =>
          /\ event'.type = "pointermove"
          /\ Len(ValueOf(activeStroke').points) = Len(ValueOf(activeStroke).points) + 1
          /\ IsPrefix(ValueOf(activeStroke).points, ValueOf(activeStroke').points)]_vars
  /\ [](/\ activeStroke # Null => StrictlyTimeOrdered(ValueOf(activeStroke).points)
        /\ \A i \in DOMAIN strokes : StrictlyTimeOrdered(strokes[i].points))

\* The operations drawn for the active stroke since its pointer-down: one
\* for each of its points.
ActiveStrokeOps ==
  SubSeq(canvasOps, Len(canvasOps) - Len(ValueOf(activeStroke).points) + 1, Len(canvasOps))

\* The i-th operation of incremental drawing: the dot at the first point,
\* then the segment from point i - 1 to point i.
IncrementalOp(stroke, i) ==
  [op |-> IF i = 1 THEN "arc" ELSE "stroke",
   composite |-> IF stroke.mode = "eraser" THEN "destination-out" ELSE "source-over",
   paint |-> IF stroke.mode = "eraser" THEN "rgba(0,0,0,1)" ELSE stroke.color,
   diameter |-> stroke.size,
   path |-> IF i = 1 THEN <<stroke.points[1]>> ELSE <<stroke.points[i - 1], stroke.points[i]>>]

RedrawInvoked ==
  /\ event'.type = "undo"
  /\ <<strokes', canvasOps', event'>> # <<strokes, canvasOps, event>>

\* C23: redrawAllStrokes is never invoked on a card while the card's
\* controller has an active stroke; it runs only while the controller is
\* idle.
C23_NoRedrawDuringStroke ==
  [][RedrawInvoked => activeStroke = Null /\ activePointerId = Null]_vars

\* The pair has what Easy mode avoids: a carry in addition, a borrow in
\* subtraction.
Spoiled(op, ab) ==
  \/ op = "addition" /\ hasCarry(ab[1], ab[2])
  \/ op = "subtraction" /\ hasBorrow(ab[1], ab[2])

\* Among the attempts n, n + 1, ..., maxAttempts of the Easy loop, drawn from
\* rng on, problem p is the first unspoiled pair if there is one (each pair
\* as it is tested: a subtraction pair with a >= b); with no attempt left,
\* every attempt was spoiled and p may be any pair.
RECURSIVE FirstUnspoiledFrom(_, _, _, _, _, _)
FirstUnspoiledAt(p, d, ab, n, aRange, bRange) ==
  IF Spoiled(p.op, ab)
  THEN FirstUnspoiledFrom(p, d.rng, n + 1, aRange, bRange, DefaultMaxAttempts)
  ELSE <<p.a, p.b>> = ab
FirstUnspoiledDrawn(p, d, n, aRange, bRange) ==
  FirstUnspoiledAt(p, d, orderOperands(p.op, d.a, d.b), n, aRange, bRange)
FirstUnspoiledFrom(p, rng, n, aRange, bRange, maxAttempts) ==
  IF n > maxAttempts THEN TRUE
  ELSE FirstUnspoiledDrawn(p, drawPair(rng, aRange, bRange), n, aRange, bRange)

\* The same for the run that produced problem p, its digit counts being
\* counts.
FirstUnspoiledWith(p, counts) ==
  FirstUnspoiledFrom(p, counts.rng, 1, digitRange(counts.aDigits),
                     digitRange(counts.bDigits), DefaultMaxAttempts)
FirstUnspoiled(p) ==
  FirstUnspoiledWith(p, chooseDigitCounts(selectOperation(forProblem(p.seed, p.index), config).state,
                                          p.op, config))

\* C24: in Easy addition (subtraction) generateOperands returns the first
\* pair, among at most 20 attempts, that has no carry (no borrow); a
\* returned pair has a carry (borrow) only if all 20 attempts produced a
\* carrying (borrowing) pair.
C24_EasyFirstCarryFree ==
  \A p \in Generated :
    (config.difficulty = "Easy" /\ p.op \in {"addition", "subtraction"})
    => FirstUnspoiled(p)

\* C24 witness: an Easy addition problem returned by a later attempt, the
\* first attempt having drawn a carrying pair, and an Easy problem returned
\* with a carry or borrow.
C24_Witness ==
  /\ config.difficulty = "Easy"
  /\ \E p \in Generated :
       /\ p.op = "addition"
       /\ RunOf(p).path = "retry"
       /\ RunOf(p).draws >= 2
       /\ ~hasCarry(p.a, p.b)
  /\ \E q \in Generated :
       /\ q.op \in {"addition", "subtraction"}
       /\ Spoiled(q.op, <<q.a, q.b>>)

\* The pair of the n-th attempt of the Easy loop started at rng, as it is
\* tested.
RECURSIVE NthAttempt(_, _, _, _, _)
NthAttemptAfter(d, n, op, aRange, bRange) ==
  IF n = 1 THEN orderOperands(op, d.a, d.b)
  ELSE NthAttempt(d.rng, n - 1, op, aRange, bRange)
NthAttempt(rng, n, op, aRange, bRange) ==
  NthAttemptAfter(drawPair(rng, aRange, bRange), n, op, aRange, bRange)

\* The pair of the last attempt of the run that produced problem p, its
\* digit counts being counts.
LastAttemptWith(p, counts) ==
  NthAttempt(counts.rng, DefaultMaxAttempts, p.op,
             digitRange(counts.aDigits), digitRange(counts.bDigits))
LastAttemptOf(p) ==
  LastAttemptWith(p, chooseDigitCounts(selectOperation(forProblem(p.seed, p.index), config).state,
                                       p.op, config))

\* C25: in Easy addition and subtraction, when none of the 20 attempts
\* yields a pair without carry (borrow), generateOperands returns the pair
\* drawn in the 20th attempt and draws nothing more from the generator.
C25_FallbackReturnsLastAttempt ==
  \A p \in Generated :
    (/\ config.difficulty = "Easy"
     /\ p.op \in {"addition", "subtraction"}
     /\ RunOf(p).path = "exhausted")
    => /\ RunOf(p).draws = DefaultMaxAttempts
       /\ <<p.a, p.b>> = LastAttemptOf(p)

\* The step puts a session just built by handleStartSession into the store:
\* a START_SESSION.
SessionStarted ==
  \E seed \in SessionSeeds :
    app'.session = Some(NewSession(seed, DefaultPracticeConfig, now))

\* C26: session lifecycle in appReducer.  While a session stays in the
\* store, short of a new START_SESSION its problem list is unchanged by
\* every action and its status never goes from completed back to active;
\* the session leaves the store only with config.mode set to FreePractice,
\* and END_SESSION in any state leaves session = null and config.mode =
\* FreePractice.
C26_SessionLifecycle ==
  /\ [][/\ (app.session # Null /\ app'.session # Null) =>
             \/ SessionStarted
             \/ /\ ValueOf(app'.session).problems = ValueOf(app.session).problems
                /\ ValueOf(app.session).status = "completed" =>
                     ValueOf(app'.session).status = "completed"
        /\ (app.session # Null /\ app'.session = Null) =>
             app'.config.mode = "FreePractice"]_vars
  /\ [](/\ appReducer(app, [type |-> "END_SESSION"], now).session = Null
        /\ appReducer(app, [type |-> "END_SESSION"], now).config.mode = "FreePractice")

\* C26 witness: a session in Session mode is completed and holds a check
\* result.
C26_Witness ==
  /\ app.session # Null
  /\ ValueOf(app.session).status = "completed"
  /\ "p1" \in DOMAIN ValueOf(app.session).checkResults
  /\ app.config.mode = "Session"

\* C27: no stroke is lost or duplicated.  Whenever the controller is idle,
\* every stroke created by an accepted pointer-down has been passed to
\* onStrokeComplete exactly once, in creation order: the list holds as many
\* strokes as were created, the i-th being the i-th created, also when a
\* second pointer-down came with the pointer id of the active stroke.
C27_NoStrokeLostOrDuplicated ==
  (activeStroke = Null) =>
    /\ Len(strokes) = strokeCounter
    /\ \A i \in DOMAIN strokes :
         \E t \in 0..MaxNow : strokes[i].id = StrokeId(t, i)

\* C28: the pen-active flag never outlives its stroke.  Each pointer id
\* reporting one pointer type, isPenActive holds only while a stroke started
\* by a pen pointer is active; so it is false when the controller is idle,
\* and a touch pointer-down delivered then is accepted: it starts a stroke
\* bound to the finger.
C28_PenActiveOnlyDuringPenStroke ==
  /\ [](isPenActive =>
          /\ activeStroke # Null
          /\ activePointerId # Null
          /\ PointerTypeOf(ValueOf(activePointerId)) = "pen")
  /\ [][(/\ activeStroke = Null
         /\ <<"pointerdown", "onPointerDown">> \in listeners
         /\ event'.type = "pointerdown"
         /\ event'.pointerType = "touch") =>
          /\ activeStroke' # Null
          /\ activePointerId' = Some(event'.pointerId)
          /\ strokeCounter' = strokeCounter + 1]_vars

\* A finger's pointer-down was accepted after a pen stroke had been
\* completed.
C28_Witness ==
  /\ Len(strokes) >= 1
  /\ \E t \in 0..MaxNow :
       strokes[1].points[1] = getCanvasPoint(PointerEventOf("pointerdown", 2), t)
  /\ PointerTypeOf(2) = "pen"
  /\ activeStroke # Null
  /\ PointerTypeOf(ValueOf(activePointerId)) = "touch"
  /\ event.type = "pointerdown"
  /\ event.pointerType = "touch"
  /\ ~isPenActive

\* C29: canvas and stroke list stay consistent.  Under every interleaving
\* of pointer events with the card's undo, the card's clear and clear-all,
\* whenever no stroke is active the ink canvas shows what redrawAllStrokes
\* would draw from the card's stroke list; and the list holds the completed,
\* not undone strokes in completion order: it changes only by the stroke an
\* accepted pointer-up completes, added at the end, by undo dropping the last
\* one and by clear and clear-all emptying it.
C29_CanvasMatchesStrokeList ==
  /\ [](activeStroke = Null => Raster(canvasOps) = Raster(redrawAllStrokes(strokes)))
  /\ [][strokes' # strokes =>
          \/ UpAccepted /\ strokes' = Append(strokes, ValueOf(activeStroke))
          \/ event'.type = "undo" /\ strokes' = SubSeq(strokes, 1, Len(strokes) - 1)
          \/ event'.type \in {"clear", "clearAll"} /\ strokes' = <<>>]_vars

(***************************************************************************)
(* Properties of the stored session summaries (SpecStorage).               *)
(***************************************************************************)

\* C30: no session summary is lost by appendSession.  When no call is in
\* flight, after any calls made, two in flight at once included, the stored
\* list holds at most MAX_STORED_SESSIONS summaries, newest first, and among
\* them every summary appended (fewer than the cap were).
C30_NoSummaryLost ==
  (appendsInFlight = <<>> /\ appendCalls > 0) =>
    /\ storedSessions # Null
    /\ Len(ValueOf(storedSessions)) <= MAX_STORED_SESSIONS
    /\ \A j, k \in DOMAIN ValueOf(storedSessions) :
         j < k => ValueOf(storedSessions)[j] > ValueOf(storedSessions)[k]
    /\ \A s \in 1..appendCalls :
         \E k \in DOMAIN ValueOf(storedSessions) : ValueOf(storedSessions)[k] = s

====
